---- MODULE Spec2Model ----
(***************************************************************************)
(* A model of the scene-change detector and its refinements, the slide     *)
(* window builder, the transcript batch packer, the batch enhancement loop *)
(* and its API call, the sentence distribution, the enhancement of single  *)
(* segments on the same cache, the parser's enhanced fields, the           *)
(* single-video pipeline and the batch-mode driver of the YouTube          *)
(* presentation extractor.                                                 *)
(*                                                                         *)
(* Times are integers in tenths of a second (10.3 s is 103), confidences   *)
(* are integers in hundredths (0.95 is 95), texts are sequences of         *)
(* one-character strings; a character that a TLA+ string cannot hold is    *)
(* written as its code point ("U+2022" is the bullet).                     *)
(***************************************************************************)
EXTENDS Integers, Sequences, FiniteSets, TLC

VARIABLES
    pc,               \* position of the operation under study
    segments,         \* TranscriptSegment list handed to the packer / enhancer
    target_tokens,    \* config.batch_target_tokens
    enable_batching,  \* config.enable_batching
    batches,          \* value returned by _create_batches
    token_estimates,  \* the estimates _create_batches computed, one per segment
    last_capture_time,          \* SceneDetector.last_capture_time
    min_time_between_captures,  \* config.min_time_between_captures
    entry_watermark,  \* last_capture_time when the latest detector call began
    candidates,       \* candidates the latest detector call put through its gate
    scene_result,     \* list returned by the latest detector call
    calls,            \* number of detector operations performed so far
    sampled_frames,   \* timestamps of the frames of the latest detect_scenes call
    scene_changes,    \* SceneChange list handed to a refinement or to _create_slides
    time_threshold,   \* merge_nearby_changes' time_threshold argument
    refined,          \* value returned by the refinement operation
    windows,          \* time ranges _create_slides stepped through, in order
    slides,           \* value returned by _create_slides
    cache_enhanced_results,  \* config.cache_enhanced_results
    max_cost_per_video,      \* config.max_cost_per_video, in millionths of a dollar
    cache,            \* TranscriptEnhancer.cache: cache key -> stored value
    stats,            \* TranscriptEnhancer.stats
    results,          \* the results list of enhance_full_transcript
    batch_idx,        \* 1-based index of the batch the loop handles next
    outcome,          \* how the latest batch got its text: none, cached, ok, failed
    videos,           \* what happens to each URL of the batch when main() runs on it
    continue_on_error,  \* args.continue_on_error
    video_idx,        \* 1-based index of the URL process_video_batch handles next
    video_results,    \* the results dictionary of process_video_batch
    skip_enabled,     \* config.skip_intro_outro at the latest skip_intro_outro call
    intro_outro_duration,  \* config.intro_outro_duration at that call
    video_duration,   \* its video_duration argument
    min_confidence,   \* filter_changes_by_confidence's min_confidence argument
    main_min_time,    \* config.min_time_between_captures of a main() run
    main_frames,      \* timestamps of the frames extract_frames returned to main()
    main_last_capture_time,  \* last_capture_time of the detector main() constructed
    primary_invoked,  \* main() has called detect_scenes
    primary_returned, \* detect_scenes has returned to main()
    primary_changes,  \* the list detect_scenes returned to main()
    advanced_invoked, \* main() has called detect_scenes_advanced
    advanced_returned,  \* detect_scenes_advanced has returned to main()
    advanced_changes, \* the list detect_scenes_advanced returned to main()
    main_scene_changes,  \* the scene_changes variable of main()
    produced,         \* what main() has produced: screenshots, slides, document
    main_interrupted, \* main() ended in its "except KeyboardInterrupt" branch
    api_prompt,       \* the prompt argument of _call_claude_api
    api_level,        \* its enhancement_level argument
    attempt,          \* the loop variable of _call_claude_api
    outstanding,      \* number of requests sent and not yet answered
    attempt_log,      \* how the finished attempts ended, in order
    sleeps,           \* the waits between the attempts, in seconds
    api_response,     \* the text _call_claude_api returned
    api_raised,       \* the exception _call_claude_api raised
    distribute_text,  \* the enhanced_text argument of _distribute_enhanced_text
    batch_segments,   \* its segments argument
    distributed,      \* the list it returned
    parser_segments,  \* TranscriptParser.segments
    enhanced_results, \* the enhanced_results argument of set_enhanced_segments
    segment_text,     \* segment.text of the latest enhance_transcript_segment call
    segment_result,   \* the value that call returned
    segment_outcome,  \* how it got that value: none, cached, ok, failed
    segment_calls,    \* number of enhance_transcript_segment calls so far
    api_calls,        \* number of _call_claude_api calls the enhancer has made
    cache_writer      \* cache key -> the operation that stored the entry

batchVars == <<segments, target_tokens, enable_batching, batches, token_estimates>>

detectorVars == <<last_capture_time, min_time_between_captures, entry_watermark,
                  candidates, scene_result, calls, sampled_frames>>

filterVars == <<skip_enabled, intro_outro_duration, video_duration, min_confidence>>

refineVars == <<scene_changes, time_threshold, refined, filterVars>>

slideVars == <<windows, slides>>

apiVars == <<api_prompt, api_level, attempt, outstanding, attempt_log, sleeps,
             api_response, api_raised>>

loopVars == <<cache_enhanced_results, max_cost_per_video, cache, stats, results,
              batch_idx, outcome>>

segmentVars == <<segment_text, segment_result, segment_outcome, segment_calls,
                 api_calls, cache_writer>>

enhanceVars == <<loopVars, apiVars, segmentVars>>

batchModeVars == <<videos, continue_on_error, video_idx, video_results>>

mainVars == <<main_min_time, main_frames, main_last_capture_time, primary_invoked,
              primary_returned, primary_changes, advanced_invoked, advanced_returned,
              advanced_changes, main_scene_changes, produced, main_interrupted>>

pipelineVars == <<batchModeVars, mainVars>>

distributeVars == <<distribute_text, batch_segments, distributed>>

parserVars == <<parser_segments, enhanced_results>>

vars == <<pc, batchVars, detectorVars, refineVars, slideVars, enhanceVars, pipelineVars,
          distributeVars, parserVars>>

----------------------------------------------------------------------------
(* Generic helpers *)

Max(a, b) == IF a >= b THEN a ELSE b

Min(a, b) == IF a <= b THEN a ELSE b

RECURSIVE Concat(_)
\* Concatenation of a sequence of sequences, in order.
Concat(ss) == IF ss = <<>> THEN <<>> ELSE Head(ss) \o Concat(Tail(ss))

Range(s) == {s[k] : k \in 1..Len(s)}

NonFinal(bs) == 1..(Len(bs) - 1)

AllButLast(s) == SubSeq(s, 1, Len(s) - 1)

\* Texts are sequences of one-character strings; the format markers of an
\* API response are single elements that count for their length.
CharWidth(c) ==
    CASE c = "ENHANCED_TEXT:" -> 14
      [] c = "ACADEMIC_TEXT:" -> 14
      [] c = "KEY_CONCEPTS:" -> 13
      [] c = "KEY_POINTS:" -> 11
      [] OTHER -> 1

RECURSIVE TextLen(_)
\* len(text)
TextLen(text) == IF text = <<>> THEN 0 ELSE CharWidth(Head(text)) + TextLen(Tail(text))

\* A text of n characters without sentence punctuation.
Filler(n) == [k \in 1..n |-> "a"]

----------------------------------------------------------------------------
(* Values of the variables a specification does not use *)

BatchIdle ==
    /\ segments = <<>>
    /\ target_tokens = 0
    /\ enable_batching = FALSE
    /\ batches = <<>>
    /\ token_estimates = <<>>

DetectorIdle ==
    /\ last_capture_time = 0
    /\ min_time_between_captures = 0
    /\ entry_watermark = 0
    /\ candidates = <<>>
    /\ scene_result = <<>>
    /\ calls = 0
    /\ sampled_frames = <<>>

FilterIdle ==
    /\ skip_enabled = FALSE
    /\ intro_outro_duration = 0
    /\ video_duration = 0
    /\ min_confidence = 0

RefineIdle ==
    /\ scene_changes = <<>>
    /\ time_threshold = 0
    /\ refined = <<>>
    /\ FilterIdle

SlidesIdle ==
    /\ windows = <<>>
    /\ slides = <<>>

\* EnhancementStats(0, 0, 0, 0.0, 0.0, [])
EmptyStats ==
    [total_segments |-> 0, enhanced_segments |-> 0, total_tokens |-> 0,
     total_cost |-> 0, errors |-> <<>>]

LoopIdle ==
    /\ cache_enhanced_results = FALSE
    /\ max_cost_per_video = 0
    /\ cache = <<>>
    /\ stats = EmptyStats
    /\ results = <<>>
    /\ batch_idx = 0
    /\ outcome = "none"

ApiIdle ==
    /\ api_prompt = <<>>
    /\ api_level = "detailed"
    /\ attempt = 0
    /\ outstanding = 0
    /\ attempt_log = <<>>
    /\ sleeps = <<>>
    /\ api_response = <<>>
    /\ api_raised = "none"

\* A value that is no string and no EnhancementResult: nothing returned yet.
NoValue == [type |-> "NoneType", value |-> <<>>]

SegmentIdle ==
    /\ segment_text = <<>>
    /\ segment_result = NoValue
    /\ segment_outcome = "none"
    /\ segment_calls = 0
    /\ api_calls = 0
    /\ cache_writer = <<>>

EnhanceIdle ==
    /\ LoopIdle
    /\ ApiIdle
    /\ SegmentIdle

DistributeIdle ==
    /\ distribute_text = <<>>
    /\ batch_segments = <<>>
    /\ distributed = <<>>

ParserIdle ==
    /\ parser_segments = <<>>
    /\ enhanced_results = <<>>

BatchModeIdle ==
    /\ videos = <<>>
    /\ continue_on_error = FALSE
    /\ video_idx = 0
    /\ video_results = [successful |-> 0, failed |-> 0, errors |-> <<>>]

MainIdle ==
    /\ main_min_time = 0
    /\ main_frames = <<>>
    /\ main_last_capture_time = 0
    /\ primary_invoked = FALSE
    /\ primary_returned = FALSE
    /\ primary_changes = <<>>
    /\ advanced_invoked = FALSE
    /\ advanced_returned = FALSE
    /\ advanced_changes = <<>>
    /\ main_scene_changes = <<>>
    /\ produced = {}
    /\ main_interrupted = FALSE

PipelineIdle ==
    /\ BatchModeIdle
    /\ MainIdle

----------------------------------------------------------------------------
(* Transcript batch packer: TranscriptEnhancer._create_batches *)

\* Bounds of the packer's inputs.
MaxSegments == 4

\* Text lengths (characters) of the segments fed to the packer:
\* estimates 1, 1, 1, 2, 4, 8 and 16 tokens.
TextLengths == {0, 3, 4, 7, 14, 28, 56}

\* batch_target_tokens values: (min_tokens, max_tokens) =
\* (0,0), (0,1), (2,6), (7,15).
TargetChoices == {0, 1, 4, 10}

\* The token estimate: the variant that rounds len(text) / 3.5 up.
estimate_tokens_ceil(text) == Max(1, (2 * TextLen(text) + 6) \div 7)

\* max(1, len(text) // 3.5): floor division by 3.5 is floor(2*len/7).
estimate_tokens(text) == Max(1, (2 * TextLen(text)) \div 7)

\* int(target_tokens * 1.5)
max_tokens_of(target) == (3 * target) \div 2

\* int(target_tokens * 0.7); the float product truncates to floor(7*target/10)
\* for every target below 90, which covers TargetChoices.
min_tokens_of(target) == (7 * target) \div 10

RECURSIVE batch_tokens(_)
\* Sum of the segment estimates of a batch (current_tokens of a closed batch).
batch_tokens(batch) ==
    IF batch = <<>> THEN 0
    ELSE estimate_tokens(Head(batch).text) + batch_tokens(Tail(batch))

\* The greedy closing test: the variant that forgets the minimum size.
should_close_no_min(current_tokens, segment_tokens, target) ==
    current_tokens + segment_tokens > max_tokens_of(target)

\* The greedy closing test: the variant that needs more than the minimum.
should_close_strict_min(current_tokens, segment_tokens, target) ==
    /\ current_tokens + segment_tokens > max_tokens_of(target)
    /\ current_tokens > min_tokens_of(target)

\* "if current_tokens + segment_tokens > max_tokens and current_tokens >= min_tokens"
should_close(current_tokens, segment_tokens, target) ==
    /\ current_tokens + segment_tokens > max_tokens_of(target)
    /\ current_tokens >= min_tokens_of(target)

\* The closing branch: the variant that loses the segment that triggered it.
close_batch_dropping(acc, segment) ==
    [batches |-> Append(acc.batches, acc.current_batch),
     current_batch |-> <<>>,
     current_tokens |-> 0]

\* The closing branch: append the running batch, restart it with the segment.
close_batch(acc, segment) ==
    [batches |-> Append(acc.batches, acc.current_batch),
     current_batch |-> <<segment>>,
     current_tokens |-> estimate_tokens(segment.text)]

\* The else branch: append the segment to the running batch.
extend_batch(acc, segment) ==
    [batches |-> acc.batches,
     current_batch |-> Append(acc.current_batch, segment),
     current_tokens |-> acc.current_tokens + estimate_tokens(segment.text)]

\* One iteration of "for segment in segments".
pack_step(acc, segment, target) ==
    IF should_close(acc.current_tokens, estimate_tokens(segment.text), target)
    THEN close_batch(acc, segment)
    ELSE extend_batch(acc, segment)

RECURSIVE pack_loop(_, _, _)
\* The whole loop, left to right, from accumulator acc.
pack_loop(acc, segs, target) ==
    IF segs = <<>> THEN acc
    ELSE pack_loop(pack_step(acc, Head(segs), target), Tail(segs), target)

\* "if current_batch: batches.append(current_batch)"
flush_batch(acc) ==
    IF acc.current_batch # <<>>
    THEN Append(acc.batches, acc.current_batch)
    ELSE acc.batches

\* _create_batches: the variant that packs whatever enable_batching says.
create_batches_always_packing(segs, target, batching) ==
    flush_batch(pack_loop([batches |-> <<>>, current_batch |-> <<>>,
                           current_tokens |-> 0], segs, target))

\* "segment_tokens = self._estimate_tokens(segment.text)" for every segment
\* the loop of _create_batches goes through; none when batching is disabled.
segment_estimates(segs, batching) ==
    IF ~batching THEN <<>>
    ELSE [k \in 1..Len(segs) |-> estimate_tokens(segs[k].text)]

\* _create_batches(segments, target_tokens)
create_batches(segs, target, batching) ==
    IF ~batching
    THEN [k \in 1..Len(segs) |-> <<segs[k]>>]
    ELSE flush_batch(pack_loop([batches |-> <<>>, current_batch |-> <<>>,
                                current_tokens |-> 0], segs, target))

\* Segments as the tests build them: consecutive 5-second segments.
MakeSegments(lens) ==
    [k \in 1..Len(lens) |->
        [start_time |-> 50 * (k - 1), end_time |-> 50 * k, text |-> Filler(lens[k])]]

LengthSeqs(n) == UNION {[1..m -> TextLengths] : m \in 0..n}

InitBatch ==
    /\ pc = "start"
    /\ segments \in {MakeSegments(ls) : ls \in LengthSeqs(MaxSegments)}
    /\ target_tokens \in TargetChoices
    /\ enable_batching \in BOOLEAN
    /\ batches = <<>>
    /\ token_estimates = <<>>
    /\ DetectorIdle
    /\ RefineIdle
    /\ SlidesIdle
    /\ EnhanceIdle
    /\ PipelineIdle
    /\ DistributeIdle
    /\ ParserIdle

\* A call of _create_batches on the configured target.
CreateBatches ==
    /\ pc = "start"
    /\ batches' = create_batches(segments, target_tokens, enable_batching)
    /\ token_estimates' = segment_estimates(segments, enable_batching)
    /\ pc' = "done"
    /\ UNCHANGED <<segments, target_tokens, enable_batching>>
    /\ UNCHANGED <<detectorVars, refineVars, slideVars, enhanceVars, pipelineVars>>
    /\ UNCHANGED <<distributeVars, parserVars>>

NextBatch == CreateBatches

SpecBatch == InitBatch /\ [][NextBatch]_vars

----------------------------------------------------------------------------
(* Claims about the packer *)

\* C4: concatenating the segments of all returned batches, in batch order,
\* reproduces the input sequence exactly.
C4_BatchPartition ==
    pc = "done" => Concat(batches) = segments

\* C4 witness: batching closed at least one batch by the greedy rule.
C4_Witness ==
    /\ pc = "done"
    /\ enable_batching
    /\ Len(batches) >= 3
    /\ Len(segments) >= 4

\* C5 as stated: every batch but the last has its estimate inside
\* [0.7 x target, 1.5 x target].
C5_Original ==
    (pc = "done" /\ enable_batching) =>
        \A b \in NonFinal(batches) :
            /\ 10 * batch_tokens(batches[b]) >= 7 * target_tokens
            /\ 2 * batch_tokens(batches[b]) <= 3 * target_tokens

\* C5 amended: every batch but the last has an estimate of at least
\* min_tokens = int(0.7 x target); it is at most max_tokens = int(1.5 x target)
\* unless it is a single segment or the segments before its last one total
\* less than min_tokens.
C5_ClosedBatchBounds ==
    (pc = "done" /\ enable_batching) =>
        \A b \in NonFinal(batches) :
            /\ batch_tokens(batches[b]) >= min_tokens_of(target_tokens)
            /\ \/ batch_tokens(batches[b]) <= max_tokens_of(target_tokens)
               \/ Len(batches[b]) = 1
               \/ batch_tokens(AllButLast(batches[b])) < min_tokens_of(target_tokens)

\* C5 witness: a closed batch over max_tokens that holds several segments.
C5_Witness ==
    /\ pc = "done"
    /\ enable_batching
    /\ \E b \in NonFinal(batches) :
          /\ batch_tokens(batches[b]) > max_tokens_of(target_tokens)
          /\ Len(batches[b]) >= 2

Oversized(segment, target) == estimate_tokens(segment.text) > max_tokens_of(target)

\* C8 as stated: an oversized segment is the only segment of its batch.
C8_Original ==
    (pc = "done" /\ enable_batching) =>
        \A b \in 1..Len(batches) :
            \A k \in 1..Len(batches[b]) :
                Oversized(batches[b][k], target_tokens) => Len(batches[b]) = 1

\* C8 amended: an oversized segment is kept whole in exactly one batch and is
\* the last segment of that batch; the segments before it in the batch, if
\* any, total less than min_tokens.
C8_OversizedLast ==
    (pc = "done" /\ enable_batching) =>
        /\ \A s \in 1..Len(segments) :
              Oversized(segments[s], target_tokens) =>
                  Cardinality({<<b, k>> \in (1..Len(batches)) \X (1..Len(segments)) :
                                  /\ k <= Len(batches[b])
                                  /\ batches[b][k] = segments[s]}) = 1
        /\ \A b \in 1..Len(batches) :
              \A k \in 1..Len(batches[b]) :
                  Oversized(batches[b][k], target_tokens) =>
                      /\ k = Len(batches[b])
                      /\ \/ k = 1
                         \/ batch_tokens(AllButLast(batches[b])) < min_tokens_of(target_tokens)

\* C8 witness: an oversized segment shares its batch with an earlier segment.
C8_Witness ==
    /\ pc = "done"
    /\ enable_batching
    /\ target_tokens > 1
    /\ \E b \in 1..Len(batches) :
          /\ Len(batches[b]) >= 2
          /\ Oversized(batches[b][Len(batches[b])], target_tokens)

\* C15 as stated: the estimate the packer computes for a segment's text is
\* max(1, ceil(len(text) / 3.5)).
C15_Original ==
    (pc = "done" /\ enable_batching) =>
        \A k \in 1..Len(segments) :
            LET len == TextLen(segments[k].text)
                e == token_estimates[k]
            IN IF len = 0 THEN e = 1
               ELSE 7 * (e - 1) < 2 * len /\ 2 * len <= 7 * e

\* C15 amended: the estimate the packer computes for a segment's text is
\* max(1, floor(len(text) / 3.5)): 1 for a text under 7 characters, else the
\* largest integer e with 3.5 * e <= len(text).
C15_EstimateRoundsDown ==
    (pc = "done" /\ enable_batching) =>
        /\ Len(token_estimates) = Len(segments)
        /\ \A k \in 1..Len(segments) :
              LET len == TextLen(segments[k].text)
                  e == token_estimates[k]
              IN IF len < 7 THEN e = 1
                 ELSE 7 * e <= 2 * len /\ 2 * len < 7 * (e + 1)

\* C15 witness: a text of 4 characters was estimated at 1 token, where
\* rounding 4 / 3.5 up gives 2.
C15_Witness ==
    /\ pc = "done"
    /\ enable_batching
    /\ \E k \in 1..Len(segments) :
          TextLen(segments[k].text) = 4 /\ token_estimates[k] = 1

\* C18: with batching disabled the result is one singleton batch per segment,
\* in input order, whatever target_tokens is.
C18_SingletonBatches ==
    (pc = "done" /\ ~enable_batching) =>
        /\ Len(batches) = Len(segments)
        /\ \A k \in 1..Len(segments) : batches[k] = <<segments[k]>>

\* C18 witness: with batching disabled, two segments of 1 token each came
\* back as two batches under a target of 10 tokens, which would pack them
\* into one.
C18_Witness ==
    /\ pc = "done"
    /\ ~enable_batching
    /\ target_tokens = 10
    /\ Len(segments) = 2
    /\ \A k \in 1..2 : TextLen(segments[k].text) = 3
    /\ Len(batches) = 2

RECURSIVE EstimateSum(_, _)
\* The sum of the estimates computed for segments from..to of the input.
EstimateSum(from, to) ==
    IF from > to THEN 0 ELSE token_estimates[from] + EstimateSum(from + 1, to)

RECURSIVE SegmentsBefore(_)
\* The number of segments in the batches before batch b.
SegmentsBefore(b) ==
    IF b = 1 THEN 0 ELSE SegmentsBefore(b - 1) + Len(batches[b - 1])

\* C20: with batching enabled every batch other than the last, which is the
\* one flushed at the end, was closed with a running estimate of at least
\* min_tokens = int(0.7 x target_tokens), the largest integer m with
\* 10 * m <= 7 * target_tokens.
C20_ClosedBatchMinimum ==
    (pc = "done" /\ enable_batching) =>
        \A b \in NonFinal(batches) :
            LET running == EstimateSum(SegmentsBefore(b) + 1,
                                       SegmentsBefore(b) + Len(batches[b]))
            IN 10 * (running + 1) > 7 * target_tokens

\* C20 witness: a batch closed at or over min_tokens is followed by a last
\* batch under min_tokens.
C20_Witness ==
    /\ pc = "done"
    /\ enable_batching
    /\ Len(batches) >= 2
    /\ min_tokens_of(target_tokens) > 0
    /\ batch_tokens(batches[1]) >= min_tokens_of(target_tokens)
    /\ batch_tokens(batches[Len(batches)]) < min_tokens_of(target_tokens)

\* C21: no batch _create_batches returns is empty, whatever the segments and
\* the target (targets with min_tokens = 0 included), and no segments give no
\* batches.
C21_NoEmptyBatch ==
    pc = "done" =>
        /\ \A b \in 1..Len(batches) : batches[b] # <<>>
        /\ segments = <<>> => batches = <<>>

----------------------------------------------------------------------------
(* Scene change detector: SceneDetector *)

\* Number of detector operations in one behaviour.
MaxCalls == 3

\* config.scene_change_threshold and config.histogram_threshold (0.3, 0.15).
scene_change_threshold == 30

histogram_threshold == 15

\* Frame timestamps (9.0 s, 10.0 s, 10.3 s); a frame list is an increasing
\* selection of them, as extract_frames produces.
FrameTimes == {90, 100, 103}

\* 1 - SSIM of a frame pair: below the threshold, and two values above it.
SsimConfidences == {20, 90, 95}

\* 1 - histogram correlation of a frame pair: below the threshold, above it
\* (but below the SSIM threshold), and high.
HistConfidences == {10, 20, 95}

\* Scene start times PySceneDetect may report.
SceneTimes == {0, 100, 105, 120}

\* min_time_between_captures: none, 0.3 s and 1.0 s.
MinTimeChoices == {0, 3, 10}

RECURSIVE SortedSeqOf(_)
\* The increasing sequence of the elements of a finite set of integers.
SortedSeqOf(S) ==
    IF S = {} THEN <<>>
    ELSE LET m == CHOOSE x \in S : \A y \in S : x <= y
         IN <<m>> \o SortedSeqOf(S \ {m})

FrameLists == {SortedSeqOf(S) : S \in SUBSET FrameTimes}

SceneLists == {SortedSeqOf(S) : S \in SUBSET SceneTimes}

\* The similarity scores of the consecutive pairs of a frame list.
PairScores(frames) ==
    [1..Max(0, Len(frames) - 1) -> [ssim : SsimConfidences, hist : HistConfidences]]

SceneChange(ts, conf, type) == [timestamp |-> ts, confidence |-> conf, change_type |-> type]

RECURSIVE detect_ssim_changes(_, _, _)
\* _detect_ssim_changes: pairs (i-1, i) for i from k to len(frames)-1 (0-based).
detect_ssim_changes(frames, scores, k) ==
    IF k > Len(frames) THEN <<>>
    ELSE (IF scores[k - 1].ssim > scene_change_threshold
          THEN <<SceneChange(frames[k], scores[k - 1].ssim, "ssim")>>
          ELSE <<>>) \o detect_ssim_changes(frames, scores, k + 1)

RECURSIVE detect_histogram_changes(_, _, _)
\* _detect_histogram_changes, likewise.
detect_histogram_changes(frames, scores, k) ==
    IF k > Len(frames) THEN <<>>
    ELSE (IF scores[k - 1].hist > histogram_threshold
          THEN <<SceneChange(frames[k], scores[k - 1].hist, "histogram")>>
          ELSE <<>>) \o detect_histogram_changes(frames, scores, k + 1)

RECURSIVE insert_by_timestamp(_, _)
\* Inserts x after every element whose timestamp is not larger (stable).
insert_by_timestamp(sorted, x) ==
    IF sorted = <<>> THEN <<x>>
    ELSE IF Head(sorted).timestamp <= x.timestamp
         THEN <<Head(sorted)>> \o insert_by_timestamp(Tail(sorted), x)
         ELSE <<x>> \o sorted

RECURSIVE sort_by_timestamp(_)
\* list.sort(key=lambda x: x.timestamp): a stable sort.
sort_by_timestamp(changes) ==
    IF changes = <<>> THEN <<>>
    ELSE insert_by_timestamp(sort_by_timestamp(AllButLast(changes)),
                             changes[Len(changes)])

\* The gate test: the variant that also lets a more confident candidate in.
gate_accepts_confident(change, last, min_time) ==
    \/ change.timestamp - last >= min_time
    \/ change.confidence >= 95

\* "if change.timestamp - self.last_capture_time >= min_time_between_captures"
gate_accepts(change, last, min_time) ==
    change.timestamp - last >= min_time

\* The watermark after an acceptance: the variant that never advances it.
advance_watermark_stuck(last, change) == last

\* "self.last_capture_time = change.timestamp"
advance_watermark(last, change) == change.timestamp

RECURSIVE apply_gate(_, _, _)
\* The filter loop: the accepted changes and the final last_capture_time.
apply_gate(changes, last, min_time) ==
    IF changes = <<>> THEN [accepted |-> <<>>, last |-> last]
    ELSE IF gate_accepts(Head(changes), last, min_time)
         THEN LET rest == apply_gate(Tail(changes),
                                     advance_watermark(last, Head(changes)), min_time)
              IN [accepted |-> <<Head(changes)>> \o rest.accepted, last |-> rest.last]
         ELSE apply_gate(Tail(changes), last, min_time)

\* The pooled, sorted candidates of one detect_scenes call.
all_changes(frames, scores) ==
    sort_by_timestamp(detect_ssim_changes(frames, scores, 2)
                      \o detect_histogram_changes(frames, scores, 2))

\* detect_scenes: the variant whose early return for fewer than 2 frames
\* also resets last_capture_time.
detect_scenes_resetting(frames, scores, last, min_time) ==
    IF Len(frames) < 2 THEN [accepted |-> <<>>, last |-> 0]
    ELSE apply_gate(all_changes(frames, scores), last, min_time)

\* detect_scenes(frames): the returned list and the new last_capture_time.
detect_scenes(frames, scores, last, min_time) ==
    IF Len(frames) < 2 THEN [accepted |-> <<>>, last |-> last]
    ELSE apply_gate(all_changes(frames, scores), last, min_time)

\* The candidates detect_scenes_advanced builds from the reported scenes.
content_changes(scenes) ==
    [k \in 1..Len(scenes) |-> SceneChange(scenes[k], 80, "content")]

\* detect_scenes_advanced(video_path) when detect() returned `scenes`.
detect_scenes_advanced(scenes, last, min_time) ==
    apply_gate(content_changes(scenes), last, min_time)

InitDetector ==
    /\ pc = "new"
    /\ last_capture_time = 0
    /\ min_time_between_captures \in MinTimeChoices
    /\ entry_watermark = 0
    /\ candidates = <<>>
    /\ scene_result = <<>>
    /\ calls = 0
    /\ sampled_frames = <<>>
    /\ BatchIdle
    /\ RefineIdle
    /\ SlidesIdle
    /\ EnhanceIdle
    /\ PipelineIdle
    /\ DistributeIdle
    /\ ParserIdle

\* SceneDetector(config): a new detector for the same configuration.
NewDetector ==
    /\ calls < MaxCalls
    /\ pc' = "new"
    /\ last_capture_time' = 0
    /\ entry_watermark' = 0
    /\ candidates' = <<>>
    /\ scene_result' = <<>>
    /\ calls' = calls + 1
    /\ sampled_frames' = <<>>
    /\ UNCHANGED <<min_time_between_captures, batchVars, refineVars, slideVars,
                   enhanceVars, pipelineVars>>
    /\ UNCHANGED <<distributeVars, parserVars>>

\* One detect_scenes call on some frame list with some similarity scores.
DetectScenes ==
    /\ calls < MaxCalls
    /\ \E frames \in FrameLists :
         \E scores \in PairScores(frames) :
            LET r == detect_scenes(frames, scores, last_capture_time,
                                   min_time_between_captures)
            IN /\ candidates' = (IF Len(frames) < 2 THEN <<>>
                                 ELSE all_changes(frames, scores))
               /\ scene_result' = r.accepted
               /\ last_capture_time' = r.last
               /\ sampled_frames' = frames
    /\ entry_watermark' = last_capture_time
    /\ pc' = "detect_scenes"
    /\ calls' = calls + 1
    /\ UNCHANGED <<min_time_between_captures, batchVars, refineVars, slideVars,
                   enhanceVars, pipelineVars>>
    /\ UNCHANGED <<distributeVars, parserVars>>

\* One detect_scenes_advanced call: detect() reports some scene list.
DetectScenesAdvanced ==
    /\ calls < MaxCalls
    /\ \E scenes \in SceneLists :
         LET r == detect_scenes_advanced(scenes, last_capture_time,
                                         min_time_between_captures)
         IN /\ candidates' = content_changes(scenes)
            /\ scene_result' = r.accepted
            /\ last_capture_time' = r.last
    /\ entry_watermark' = last_capture_time
    /\ pc' = "detect_scenes_advanced"
    /\ calls' = calls + 1
    /\ sampled_frames' = <<>>
    /\ UNCHANGED <<min_time_between_captures, batchVars, refineVars, slideVars,
                   enhanceVars, pipelineVars>>
    /\ UNCHANGED <<distributeVars, parserVars>>

\* One detect_scenes_advanced call in which detect() raises: the except
\* clause returns [] before any candidate was examined.
DetectScenesAdvancedFails ==
    /\ calls < MaxCalls
    /\ candidates' = <<>>
    /\ scene_result' = <<>>
    /\ entry_watermark' = last_capture_time
    /\ pc' = "detect_scenes_advanced"
    /\ calls' = calls + 1
    /\ sampled_frames' = <<>>
    /\ UNCHANGED <<last_capture_time, min_time_between_captures, batchVars, refineVars,
                   slideVars, enhanceVars, pipelineVars>>
    /\ UNCHANGED <<distributeVars, parserVars>>

NextDetector ==
    \/ NewDetector
    \/ DetectScenes
    \/ DetectScenesAdvanced
    \/ DetectScenesAdvancedFails

SpecDetector == InitDetector /\ [][NextDetector]_vars

----------------------------------------------------------------------------
(* Claims about the detector *)

Timestamps(changes) == [k \in 1..Len(changes) |-> changes[k].timestamp]

\* The watermark a change at position k of an accepted list was gated
\* against: the change accepted before it, or the watermark at entry.
GatedAgainst(accepted, k, entry) ==
    IF k = 1 THEN entry ELSE accepted[k - 1].timestamp

\* C2 as stated: the list one detect_scenes call returns has strictly
\* increasing timestamps whose consecutive differences are at least
\* min_time_between_captures.
C2_Original ==
    pc = "detect_scenes" =>
        \A k \in 1..(Len(scene_result) - 1) :
            /\ scene_result[k + 1].timestamp > scene_result[k].timestamp
            /\ scene_result[k + 1].timestamp - scene_result[k].timestamp
                   >= min_time_between_captures

\* C2 amended: the list one detect_scenes call returns has non-decreasing
\* timestamps whose consecutive differences are at least
\* min_time_between_captures; they are strictly increasing whenever
\* min_time_between_captures is positive.
C2_MonotonicGate ==
    pc = "detect_scenes" =>
        \A k \in 1..(Len(scene_result) - 1) :
            /\ scene_result[k + 1].timestamp >= scene_result[k].timestamp
            /\ scene_result[k + 1].timestamp - scene_result[k].timestamp
                   >= min_time_between_captures
            /\ min_time_between_captures > 0 =>
                   scene_result[k + 1].timestamp > scene_result[k].timestamp

\* C2 witness: a call with a positive minimum time returned two changes.
C2_Witness ==
    /\ pc = "detect_scenes"
    /\ min_time_between_captures > 0
    /\ Len(scene_result) >= 2

\* C3: last_capture_time starts at 0; a detector call never decreases it and
\* leaves it at the timestamp of the change it accepted last (unchanged when
\* it accepted none); every change a call accepts is at least
\* min_time_between_captures after the watermark left by the acceptances
\* before it, earlier calls included; only a new detector resets it to 0.
C3_Watermark ==
    /\ last_capture_time = 0
    /\ [][ /\ pc' = "new" => last_capture_time' = 0
           /\ pc' # "new" =>
                /\ last_capture_time' >= last_capture_time
                /\ last_capture_time' =
                       (IF scene_result' = <<>> THEN last_capture_time
                        ELSE scene_result'[Len(scene_result')].timestamp)
                /\ \A k \in 1..Len(scene_result') :
                       scene_result'[k].timestamp
                         - GatedAgainst(scene_result', k, last_capture_time)
                           >= min_time_between_captures
         ]_vars

\* C3 witness: a call that began with a watermark left by an earlier call
\* accepted a change.
C3_Witness ==
    /\ pc \in {"detect_scenes", "detect_scenes_advanced"}
    /\ entry_watermark > 0
    /\ scene_result # <<>>
    /\ last_capture_time > entry_watermark

\* The candidates accepted before position j of the gated list.
AcceptedBefore(j) == {i \in 1..(j - 1) : candidates[i] \in Range(scene_result)}

\* The watermark candidate j met: the latest candidate accepted before it,
\* or the watermark at entry.
WatermarkAt(j) ==
    IF AcceptedBefore(j) = {} THEN entry_watermark
    ELSE candidates[CHOOSE i \in AcceptedBefore(j) :
                        \A h \in AcceptedBefore(j) : h <= i].timestamp

\* C6: detect_scenes gates the pooled candidates in timestamp order: a
\* candidate is kept exactly when it is at least min_time_between_captures
\* after the watermark it meets, whatever its confidence; each acceptance moves
\* last_capture_time to the accepted timestamp; candidates at 10.0 s (0.9) and
\* 10.3 s (0.95) with a minimum of 1.0 s yield only the one at 10.0 s.
C6_GateIgnoresConfidence ==
    pc = "detect_scenes" =>
        /\ \A j \in 1..(Len(candidates) - 1) :
              candidates[j].timestamp <= candidates[j + 1].timestamp
        /\ scene_result = SelectSeq(candidates, LAMBDA c : c \in Range(scene_result))
        /\ \A j \in 1..Len(candidates) :
              candidates[j] \in Range(scene_result) <=>
                  candidates[j].timestamp - WatermarkAt(j) >= min_time_between_captures
        /\ last_capture_time = WatermarkAt(Len(candidates) + 1)
        /\ ( /\ Timestamps(candidates) = <<100, 103>>
             /\ candidates[1].confidence = 90
             /\ candidates[2].confidence = 95
             /\ min_time_between_captures = 10
             /\ entry_watermark = 0 ) => scene_result = <<candidates[1]>>

\* C6 witness: the candidates at 10.0 s (0.9) and 10.3 s (0.95) met a gate of
\* 1.0 s and the less confident one at 10.0 s alone was returned.
C6_Witness ==
    /\ pc = "detect_scenes"
    /\ min_time_between_captures = 10
    /\ entry_watermark = 0
    /\ Timestamps(candidates) = <<100, 103>>
    /\ candidates[1].confidence = 90
    /\ candidates[2].confidence = 95
    /\ Timestamps(scene_result) = <<100>>
    /\ last_capture_time = 100

\* C19: a detect_scenes call with fewer than 2 frames returns the empty list
\* and leaves last_capture_time as it was when the call began.
C19_TooFewFrames ==
    (pc = "detect_scenes" /\ Len(sampled_frames) < 2) =>
        /\ scene_result = <<>>
        /\ last_capture_time = entry_watermark

\* C19 witness: a detect_scenes call with one frame on a detector whose
\* earlier call had moved last_capture_time off 0.
C19_Witness ==
    /\ pc = "detect_scenes"
    /\ Len(sampled_frames) = 1
    /\ scene_result = <<>>
    /\ entry_watermark > 0
    /\ last_capture_time = entry_watermark

----------------------------------------------------------------------------
(* Refinement of a change list: SceneDetector.merge_nearby_changes *)

\* Longest change list handed to a refinement.
MaxChanges == 3

\* Timestamps of the changes to refine (10.0 s, 10.5 s, 11.0 s, 12.5 s).
ChangeTimes == {100, 105, 110, 125}

\* Confidences of the changes to refine (0.5, 0.8).
ChangeConfidences == {50, 80}

\* time_threshold values: 0.5 s and the default 1.0 s.
ThresholdChoices == {5, 10}

\* Time-sorted change lists of at most n changes.
SortedChangeLists(n) ==
    UNION {{[k \in 1..m |-> SceneChange(ts[k], cf[k], "ssim")] :
                ts \in {t \in [1..m -> ChangeTimes] :
                           \A k \in 1..(m - 1) : t[k] <= t[k + 1]},
                cf \in [1..m -> ChangeConfidences]} : m \in 0..n}

\* The replacement test: the variant that also replaces on equal confidence.
replaces_last_on_tie(change, last_change) ==
    change.confidence >= last_change.confidence

\* "if change.confidence > last_change.confidence"
replaces_last(change, last_change) ==
    change.confidence > last_change.confidence

\* One iteration of the merge loop: the variant that keeps every change.
merge_step_keeping_all(merged, change, threshold) == Append(merged, change)

\* One iteration of "for change in changes[1:]".
merge_step(merged, change, threshold) ==
    LET last_change == merged[Len(merged)]
    IN IF change.timestamp - last_change.timestamp <= threshold
       THEN (IF replaces_last(change, last_change)
             THEN Append(AllButLast(merged), change)
             ELSE merged)
       ELSE Append(merged, change)

RECURSIVE merge_loop(_, _, _)
\* The loop over changes[1:], left to right, from the kept list merged.
merge_loop(merged, changes, threshold) ==
    IF changes = <<>> THEN merged
    ELSE merge_loop(merge_step(merged, Head(changes), threshold),
                    Tail(changes), threshold)

\* merge_nearby_changes(changes, time_threshold)
merge_nearby_changes(changes, threshold) ==
    IF changes = <<>> THEN <<>>
    ELSE merge_loop(<<Head(changes)>>, Tail(changes), threshold)

\* Time-sorted change lists around the intro and outro of a 300 s video:
\* changes at 15 s, 30 s, 150 s, 270 s and 290 s.
IntroOutroTimes == {150, 300, 1500, 2700, 2900}

IntroOutroChangeLists(n) ==
    {[k \in 1..Len(ts) |-> SceneChange(ts[k], 80, "ssim")] :
        ts \in {SortedSeqOf(S) : S \in {T \in SUBSET IntroOutroTimes :
                                            Cardinality(T) <= n}}}

\* config.intro_outro_duration: 0 s, the default 30 s, and 200 s.
IntroOutroDurations == {0, 300, 2000}

\* Video durations: 300 s and 12 s.
VideoDurations == {3000, 120}

\* min_confidence arguments: the default 0.5, 0.8 and 0.9.
MinConfidences == {50, 80, 90}

\* The intro/outro filter: the variant that also drops a change exactly at
\* the end of the intro or at the start of the outro.
keeps_change_inside(change, duration, intro_outro) ==
    /\ ~(change.timestamp <= intro_outro)
    /\ ~(change.timestamp >= duration - intro_outro)

\* The loop body of skip_intro_outro: neither "continue" is taken.
keeps_change(change, duration, intro_outro) ==
    /\ ~(change.timestamp < intro_outro)
    /\ ~(change.timestamp > duration - intro_outro)

RECURSIVE skip_loop(_, _, _)
\* "for change in changes", building filtered.
skip_loop(changes, duration, intro_outro) ==
    IF changes = <<>> THEN <<>>
    ELSE (IF keeps_change(Head(changes), duration, intro_outro)
          THEN <<Head(changes)>> ELSE <<>>)
         \o skip_loop(Tail(changes), duration, intro_outro)

\* skip_intro_outro(changes, video_duration) under the given configuration.
skip_intro_outro(changes, duration, enabled, intro_outro) ==
    IF ~enabled THEN changes
    ELSE skip_loop(changes, duration, intro_outro)

\* The confidence test: the variant that drops a change whose confidence
\* equals min_confidence.
passes_confidence_strict(change, min_conf) == change.confidence > min_conf

\* "change.confidence >= min_confidence"
passes_confidence(change, min_conf) == change.confidence >= min_conf

RECURSIVE filter_changes_by_confidence(_, _)
\* filter_changes_by_confidence(changes, min_confidence)
filter_changes_by_confidence(changes, min_conf) ==
    IF changes = <<>> THEN <<>>
    ELSE (IF passes_confidence(Head(changes), min_conf)
          THEN <<Head(changes)>> ELSE <<>>)
         \o filter_changes_by_confidence(Tail(changes), min_conf)

InitRefine ==
    /\ pc = "start"
    /\ scene_changes \in SortedChangeLists(MaxChanges) \cup IntroOutroChangeLists(MaxChanges)
    /\ time_threshold \in ThresholdChoices
    /\ refined = <<>>
    /\ FilterIdle
    /\ BatchIdle
    /\ DetectorIdle
    /\ SlidesIdle
    /\ EnhanceIdle
    /\ PipelineIdle
    /\ DistributeIdle
    /\ ParserIdle

\* A call of merge_nearby_changes.
MergeNearbyChanges ==
    /\ pc = "start"
    /\ refined' = merge_nearby_changes(scene_changes, time_threshold)
    /\ pc' = "merged"
    /\ UNCHANGED <<scene_changes, time_threshold, filterVars, batchVars, detectorVars,
                   slideVars, enhanceVars, pipelineVars>>
    /\ UNCHANGED <<distributeVars, parserVars>>

\* A call of skip_intro_outro.
SkipIntroOutro ==
    /\ pc = "start"
    /\ \E enabled \in BOOLEAN, intro_outro \in IntroOutroDurations,
          duration \in VideoDurations :
          /\ skip_enabled' = enabled
          /\ intro_outro_duration' = intro_outro
          /\ video_duration' = duration
          /\ refined' = skip_intro_outro(scene_changes, duration, enabled, intro_outro)
    /\ pc' = "skipped"
    /\ UNCHANGED <<scene_changes, time_threshold, min_confidence, batchVars,
                   detectorVars, slideVars, enhanceVars, pipelineVars>>
    /\ UNCHANGED <<distributeVars, parserVars>>

\* A call of filter_changes_by_confidence.
FilterChangesByConfidence ==
    /\ pc = "start"
    /\ \E min_conf \in MinConfidences :
          /\ min_confidence' = min_conf
          /\ refined' = filter_changes_by_confidence(scene_changes, min_conf)
    /\ pc' = "filtered"
    /\ UNCHANGED <<scene_changes, time_threshold, skip_enabled, intro_outro_duration,
                   video_duration, batchVars, detectorVars, slideVars, enhanceVars,
                   pipelineVars>>
    /\ UNCHANGED <<distributeVars, parserVars>>

\* A second call of filter_changes_by_confidence, on the list the first one
\* returned and with the same min_confidence.
FilterChangesAgain ==
    /\ pc = "filtered"
    /\ refined' = filter_changes_by_confidence(refined, min_confidence)
    /\ pc' = "filtered_twice"
    /\ UNCHANGED <<scene_changes, time_threshold, filterVars, batchVars, detectorVars,
                   slideVars, enhanceVars, pipelineVars>>
    /\ UNCHANGED <<distributeVars, parserVars>>

NextRefine ==
    \/ MergeNearbyChanges
    \/ SkipIntroOutro
    \/ FilterChangesByConfidence
    \/ FilterChangesAgain

SpecRefine == InitRefine /\ [][NextRefine]_vars

----------------------------------------------------------------------------
(* Claims about the refinements *)

\* The kept list after the first n input changes: the returned list when n
\* is the whole input.
KeptAfter(n) ==
    IF n = Len(scene_changes) THEN refined
    ELSE merge_nearby_changes(SubSeq(scene_changes, 1, n), time_threshold)

\* C7: processing a time-sorted list in order, a change within time_threshold
\* of the last kept change replaces it exactly when its confidence is strictly
\* higher (otherwise the kept list is unchanged), and a change further away is
\* appended; changes at 10.0 s (0.5) and 10.5 s (0.8) with a threshold of
\* 1.0 s give the single change at 10.5 s with confidence 0.8.
C7_MergeTieBreak ==
    pc = "merged" =>
        /\ scene_changes = <<>> => refined = <<>>
        /\ Len(scene_changes) >= 1 => KeptAfter(1) = <<scene_changes[1]>>
        /\ \A n \in 1..(Len(scene_changes) - 1) :
              LET kept == KeptAfter(n)
                  last_kept == kept[Len(kept)]
                  change == scene_changes[n + 1]
              IN IF change.timestamp - last_kept.timestamp <= time_threshold
                 THEN IF change.confidence > last_kept.confidence
                      THEN KeptAfter(n + 1) = Append(AllButLast(kept), change)
                      ELSE KeptAfter(n + 1) = kept
                 ELSE KeptAfter(n + 1) = Append(kept, change)
        /\ ( /\ Timestamps(scene_changes) = <<100, 105>>
             /\ scene_changes[1].confidence = 50
             /\ scene_changes[2].confidence = 80
             /\ time_threshold = 10 )
           => ( /\ Timestamps(refined) = <<105>>
                /\ refined[1].confidence = 80 )

\* C7 witness: the changes at 10.0 s (0.5) and 10.5 s (0.8) were merged with a
\* threshold of 1.0 s into the one at 10.5 s.
C7_Witness ==
    /\ pc = "merged"
    /\ time_threshold = 10
    /\ Timestamps(scene_changes) = <<100, 105>>
    /\ scene_changes[1].confidence = 50
    /\ scene_changes[2].confidence = 80
    /\ refined = <<scene_changes[2]>>

\* C13: with the feature enabled skip_intro_outro returns, in order, exactly
\* the changes with intro_outro_duration <= timestamp <= video_duration -
\* intro_outro_duration (of changes at 15 s, 150 s and 290 s of a 300 s video
\* with a duration of 30 s only the one at 150 s); with the feature disabled
\* it returns its input.
C13_SkipIntroOutro ==
    pc = "skipped" =>
        /\ skip_enabled =>
              refined = SelectSeq(scene_changes,
                            LAMBDA c : /\ intro_outro_duration <= c.timestamp
                                       /\ c.timestamp <= video_duration - intro_outro_duration)
        /\ ~skip_enabled => refined = scene_changes
        /\ ( /\ skip_enabled
             /\ intro_outro_duration = 300
             /\ video_duration = 3000
             /\ Timestamps(scene_changes) = <<150, 1500, 2900>> )
           => Timestamps(refined) = <<1500>>

\* C13 witness: the changes at 15 s, 150 s and 290 s of a 300 s video went
\* through the enabled filter with a duration of 30 s.
C13_Witness ==
    /\ pc = "skipped"
    /\ skip_enabled
    /\ intro_outro_duration = 300
    /\ video_duration = 3000
    /\ Timestamps(scene_changes) = <<150, 1500, 2900>>
    /\ Timestamps(refined) = <<1500>>

\* C14: filter_changes_by_confidence returns, in order, exactly the changes
\* with confidence >= min_confidence, and a second application with the same
\* min_confidence returns the list the first one returned.
C14_FilterIdempotent ==
    /\ [](pc = "filtered" =>
             refined = SelectSeq(scene_changes,
                           LAMBDA c : c.confidence >= min_confidence))
    /\ [][(pc = "filtered" /\ pc' = "filtered_twice") => refined' = refined]_vars

\* C14 witness: the filter was applied twice to a list of which it dropped
\* one change and kept one whose confidence equals min_confidence.
C14_Witness ==
    /\ pc = "filtered_twice"
    /\ refined # <<>>
    /\ Len(refined) < Len(scene_changes)
    /\ \E k \in 1..Len(refined) : refined[k].confidence = min_confidence

RECURSIVE IsSubsequence(_, _)
\* sub can be obtained from full by deleting elements.
IsSubsequence(sub, full) ==
    IF sub = <<>> THEN TRUE
    ELSE IF full = <<>> THEN FALSE
    ELSE IF Head(sub) = Head(full) THEN IsSubsequence(Tail(sub), Tail(full))
    ELSE IsSubsequence(sub, Tail(full))

\* C23: for a time-sorted input the list merge_nearby_changes returns is a
\* subsequence of the input in which consecutive changes are more than
\* time_threshold apart; an empty input gives an empty list.
C23_MergeSubsequence ==
    pc = "merged" =>
        /\ IsSubsequence(refined, scene_changes)
        /\ \A k \in 1..(Len(refined) - 1) :
              refined[k + 1].timestamp - refined[k].timestamp > time_threshold
        /\ scene_changes = <<>> => refined = <<>>

\* C23 witness: of three changes the second replaced the first and the third,
\* further away, was kept.
C23_Witness ==
    /\ pc = "merged"
    /\ Len(scene_changes) = 3
    /\ refined = <<scene_changes[2], scene_changes[3]>>
    /\ scene_changes[2].timestamp - scene_changes[1].timestamp <= time_threshold
    /\ scene_changes[1] # scene_changes[2]

----------------------------------------------------------------------------
(* Slide window builder: DocumentGenerator._create_slides *)

\* Longest change list handed to _create_slides.
MaxSlideChanges == 3

\* "time_limit_per_slide = 300.0", in tenths of a second.
time_limit_per_slide == 3000

\* Timestamps of the scene changes (100 s, 250 s, 400 s, 450 s, 800 s).
SlideChangeTimes == {1000, 2500, 4000, 4500, 8000}

\* The transcript: any selection of these segments, in start order.
TranscriptSegments ==
    { [start_time |-> 0, end_time |-> 500, text |-> <<"a">>],
      [start_time |-> 3000, end_time |-> 3200, text |-> <<"b">>],
      [start_time |-> 9000, end_time |-> 9500, text |-> <<"a", "b">>] }

RECURSIVE SortedSegments(_)
SortedSegments(S) ==
    IF S = {} THEN <<>>
    ELSE LET m == CHOOSE x \in S : \A y \in S : x.start_time <= y.start_time
         IN <<m>> \o SortedSegments(S \ {m})

Transcripts == {SortedSegments(S) : S \in SUBSET TranscriptSegments}

\* Scene change lists with strictly increasing timestamps, as the pipeline
\* hands them over after merge_nearby_changes.
SlideChangeLists(n) ==
    {[k \in 1..Len(ts) |-> SceneChange(ts[k], 80, "ssim")] :
        ts \in {SortedSeqOf(S) : S \in {T \in SUBSET SlideChangeTimes :
                                            Cardinality(T) <= n}}}

\* The range query: the variant that leaves out a segment that only touches
\* the range at one of its ends.
get_segments_in_range_exclusive(segs, start_time, end_time) ==
    SelectSeq(segs, LAMBDA g : g.start_time < end_time /\ g.end_time > start_time)

\* TranscriptParser.get_segments_in_range(start_time, end_time)
get_segments_in_range(segs, start_time, end_time) ==
    SelectSeq(segs, LAMBDA g : g.start_time <= end_time /\ g.end_time >= start_time)

\* "start_time = 0.0" for the first change, else scene_changes[i-1].timestamp.
range_start(changes, i) ==
    IF i = 1 THEN 0 ELSE changes[i - 1].timestamp

\* The end of the range of change i: the variant that ends every range at
\* the change's own timestamp + time_limit_per_slide.
range_end_own_limit(changes, i) ==
    changes[i].timestamp + time_limit_per_slide

\* end_time: the next change's timestamp, or for the last change its own
\* timestamp + time_limit_per_slide.
range_end(changes, i) ==
    IF i < Len(changes) THEN changes[i + 1].timestamp
    ELSE changes[i].timestamp + time_limit_per_slide

\* The splitting loop: the variant that takes the whole range as one
\* sub-window.
split_range_unsplit(segs, i, current_time, end_time, made) ==
    IF ~(current_time < end_time) THEN [windows |-> <<>>, slides |-> <<>>]
    ELSE LET in_range == get_segments_in_range(segs, current_time, end_time)
             slide == [timestamp |-> current_time,
                       screenshot |-> i,
                       slide_number |-> made + 1,
                       texts |-> [k \in 1..Len(in_range) |-> in_range[k].text]]
         IN [windows |-> <<[start |-> current_time, end |-> end_time, change |-> i]>>,
             slides |-> IF in_range # <<>> THEN <<slide>> ELSE <<>>]

RECURSIVE split_range(_, _, _, _, _)
\* "while current_time < end_time": the ranges stepped through and the slides
\* created, given the number of slides created so far.
split_range(segs, i, current_time, end_time, made) ==
    IF ~(current_time < end_time) THEN [windows |-> <<>>, slides |-> <<>>]
    ELSE LET slide_end_time == Min(current_time + time_limit_per_slide, end_time)
             in_range == get_segments_in_range(segs, current_time, slide_end_time)
             slide == [timestamp |-> current_time,
                       screenshot |-> i,
                       slide_number |-> made + 1,
                       texts |-> [k \in 1..Len(in_range) |-> in_range[k].text]]
             here == IF in_range # <<>> THEN <<slide>> ELSE <<>>
             rest == split_range(segs, i, slide_end_time, end_time, made + Len(here))
         IN [windows |-> <<[start |-> current_time, end |-> slide_end_time,
                             change |-> i]>> \o rest.windows,
             slides |-> here \o rest.slides]

RECURSIVE slides_from(_, _, _, _)
\* "for i, change in enumerate(scene_changes)" from change i on.
slides_from(changes, segs, i, made) ==
    IF i > Len(changes) THEN [windows |-> <<>>, slides |-> <<>>]
    ELSE LET this == split_range(segs, i, range_start(changes, i),
                                 range_end(changes, i), made)
             rest == slides_from(changes, segs, i + 1, made + Len(this.slides))
         IN [windows |-> this.windows \o rest.windows,
             slides |-> this.slides \o rest.slides]

\* _create_slides(scene_changes, transcript_parser)
create_slides(changes, segs) == slides_from(changes, segs, 1, 0)

InitSlides ==
    /\ pc = "start"
    /\ scene_changes \in SlideChangeLists(MaxSlideChanges)
    /\ segments \in Transcripts
    /\ time_threshold = 0
    /\ refined = <<>>
    /\ FilterIdle
    /\ windows = <<>>
    /\ slides = <<>>
    /\ target_tokens = 0
    /\ enable_batching = FALSE
    /\ batches = <<>>
    /\ token_estimates = <<>>
    /\ DetectorIdle
    /\ EnhanceIdle
    /\ PipelineIdle
    /\ DistributeIdle
    /\ ParserIdle

\* A call of _create_slides.
CreateSlides ==
    /\ pc = "start"
    /\ LET r == create_slides(scene_changes, segments)
       IN /\ windows' = r.windows
          /\ slides' = r.slides
    /\ pc' = "slides_done"
    /\ UNCHANGED <<batchVars, detectorVars, refineVars, enhanceVars, pipelineVars>>
    /\ UNCHANGED <<distributeVars, parserVars>>

NextSlides == CreateSlides

SpecSlides == InitSlides /\ [][NextSlides]_vars

----------------------------------------------------------------------------
(* Claims about the slide window builder *)

\* C1: for a time-ordered scene-change list the time ranges _create_slides
\* computes cover [0, last change + time_limit_per_slide] without gaps and
\* overlaps: the first starts at 0, each ends where the next starts, the last
\* ends at last change + time_limit_per_slide, and none is longer than
\* time_limit_per_slide.
C1_WindowPartition ==
    (pc = "slides_done" /\ scene_changes # <<>>) =>
        /\ windows # <<>>
        /\ windows[1].start = 0
        /\ \A k \in 1..(Len(windows) - 1) : windows[k].end = windows[k + 1].start
        /\ windows[Len(windows)].end =
               scene_changes[Len(scene_changes)].timestamp + time_limit_per_slide
        /\ \A k \in 1..Len(windows) :
               windows[k].end - windows[k].start <= time_limit_per_slide

\* Some transcript segment overlaps the sub-window w, ends included.
HasOverlap(w) ==
    \E k \in 1..Len(segments) :
        segments[k].start_time <= w.end /\ segments[k].end_time >= w.start

\* C11: the slides are, in order, exactly the sub-windows that some transcript
\* segment overlaps (segment.start_time <= end and segment.end_time >= start):
\* a sub-window without one gives no slide, and the sub-windows after it are
\* still gone through.
C11_SlideIffOverlap ==
    pc = "slides_done" =>
        LET kept == SelectSeq(windows, HasOverlap)
        IN /\ Len(slides) = Len(kept)
           /\ \A k \in 1..Len(kept) :
                 /\ slides[k].timestamp = kept[k].start
                 /\ slides[k].screenshot = kept[k].change

\* C11 witness: one change at 800 s and one segment from 900 s on: the
\* sub-windows from 0 s and 300 s give no slide, the one ending at 900 s, which
\* the segment only touches, and the one after it give the two slides.
C11_Witness ==
    /\ pc = "slides_done"
    /\ Timestamps(scene_changes) = <<8000>>
    /\ Len(segments) = 1
    /\ segments[1].start_time = 9000
    /\ Len(windows) = 4
    /\ Len(slides) = 2
    /\ slides[1].timestamp = 6000
    /\ slides[2].timestamp = 9000

\* The sub-windows built for change i (1-based).
WindowsOf(i) == SelectSeq(windows, LAMBDA w : w.change = i)

\* C12: the first range starts at 0, and the range built for change i ends at
\* the timestamp of change i+1, for the last change (of a one-element list
\* too, whose range is [0, timestamp + time_limit_per_slide]) at its own
\* timestamp + time_limit_per_slide.
C12_NominalEnds ==
    (pc = "slides_done" /\ scene_changes # <<>>) =>
        /\ WindowsOf(1)[1].start = 0
        /\ \A i \in 1..Len(scene_changes) :
              LET ws == WindowsOf(i)
              IN /\ ws # <<>>
                 /\ ws[Len(ws)].end =
                        IF i < Len(scene_changes)
                        THEN scene_changes[i + 1].timestamp
                        ELSE scene_changes[i].timestamp + time_limit_per_slide
        /\ Len(scene_changes) = 1 =>
              /\ windows[1].start = 0
              /\ windows[Len(windows)].end =
                     scene_changes[1].timestamp + time_limit_per_slide
              /\ \A k \in 1..(Len(windows) - 1) :
                     windows[k].end = windows[k + 1].start

\* C12 witness: changes at 100 s, 250 s and 800 s: the ranges end at 250 s,
\* 800 s and 1100 s.
C12_Witness ==
    /\ pc = "slides_done"
    /\ Timestamps(scene_changes) = <<1000, 2500, 8000>>
    /\ WindowsOf(1)[Len(WindowsOf(1))].end = 2500
    /\ WindowsOf(2)[Len(WindowsOf(2))].end = 8000
    /\ WindowsOf(3)[Len(WindowsOf(3))].end = 11000

\* C22: the sub-windows stepped through for the range of a change begin at
\* the range's start, each begins where the one before ended, the last ends at
\* the range's end, all have a positive length of at most
\* time_limit_per_slide, and all but the last have exactly that length.
C22_SplitCoversRange ==
    pc = "slides_done" =>
        \A i \in 1..Len(scene_changes) :
            LET ws == WindowsOf(i)
                first == IF i = 1 THEN 0 ELSE scene_changes[i - 1].timestamp
                last == IF i < Len(scene_changes)
                        THEN scene_changes[i + 1].timestamp
                        ELSE scene_changes[i].timestamp + time_limit_per_slide
            IN first < last =>
                  /\ ws # <<>>
                  /\ ws[1].start = first
                  /\ ws[Len(ws)].end = last
                  /\ \A k \in 1..(Len(ws) - 1) :
                        /\ ws[k].end = ws[k + 1].start
                        /\ ws[k].end - ws[k].start = time_limit_per_slide
                  /\ \A k \in 1..Len(ws) :
                        /\ ws[k].start < ws[k].end
                        /\ ws[k].end - ws[k].start <= time_limit_per_slide

\* C22 witness: with changes at 100 s and 800 s the range [0, 800] of the
\* first change was stepped through as 0-300, 300-600 and 600-800 s.
C22_Witness ==
    /\ pc = "slides_done"
    /\ Timestamps(scene_changes) = <<1000, 8000>>
    /\ Len(WindowsOf(1)) = 3
    /\ WindowsOf(1)[1].end = 3000
    /\ WindowsOf(1)[2].end = 6000
    /\ WindowsOf(1)[3].end = 8000

----------------------------------------------------------------------------
(* Batch enhancement: TranscriptEnhancer.enhance_full_transcript *)

\* Longest segment list handed to enhance_full_transcript.
MaxEnhanceSegments == 2

\* Segment texts: "a", "a. b" and "b.".
SegmentTexts == {<<"a">>, <<"a", ".", " ", "b">>, <<"b", ".">>}

\* Texts the API may answer with: "c. d.", "c" and the three lines
\* "ENHANCED_TEXT:", "c." and "KEY_POINTS: d".
Responses ==
    {<<"c", ".", " ", "d", ".">>,
     <<"c">>,
     <<"ENHANCED_TEXT:", "\n", "c", ".", "\n", "KEY_POINTS:", " ", "d">>}

\* batch_target_tokens: 1 (min_tokens 0, max_tokens 1) and the default 1500.
EnhanceTargets == {1, 1500}

\* max_cost_per_video: no limit (-0.000001 and 0 dollars), 0.000003 dollars,
\* and the default 5 dollars.
CostLimits == {-1, 0, 3, 5000000}

\* The enhancement_level of the call; the cache key ends with it.
enhancement_level == "detailed"

\* The characters str.strip() removes: those for which str.isspace() holds.
Whitespace ==
    {" ", "\t", "\n", "\r", "\f", "U+000B", "U+001C", "U+001D", "U+001E", "U+001F",
     "U+0085", "U+00A0", "U+1680", "U+2000", "U+2001", "U+2002", "U+2003", "U+2004",
     "U+2005", "U+2006", "U+2007", "U+2008", "U+2009", "U+200A", "U+2028", "U+2029",
     "U+202F", "U+205F", "U+3000"}

IsSpace(c) == c \in Whitespace

RECURSIVE lstrip(_)
lstrip(text) ==
    IF text # <<>> /\ IsSpace(Head(text)) THEN lstrip(Tail(text)) ELSE text

RECURSIVE rstrip(_)
rstrip(text) ==
    IF text # <<>> /\ IsSpace(text[Len(text)]) THEN rstrip(AllButLast(text)) ELSE text

\* str.strip()
strip(text) == rstrip(lstrip(text))

RECURSIVE split_on(_, _)
\* text.split(sep) for one-element separators: the pieces around every
\* element of text that is in seps.
split_on(text, seps) ==
    IF \A k \in 1..Len(text) : text[k] \notin seps THEN <<text>>
    ELSE LET k == CHOOSE i \in 1..Len(text) :
                      /\ text[i] \in seps
                      /\ \A h \in 1..(i - 1) : text[h] \notin seps
         IN <<SubSeq(text, 1, k - 1)>> \o split_on(SubSeq(text, k + 1, Len(text)), seps)

RECURSIVE join(_, _)
\* sep.join(pieces)
join(pieces, sep) ==
    IF pieces = <<>> THEN <<>>
    ELSE IF Len(pieces) = 1 THEN pieces[1]
    ELSE pieces[1] \o sep \o join(Tail(pieces), sep)

\* _combine_batch_text: " ".join([seg.text for seg in segments])
combine_batch_text(batch) == join([k \in 1..Len(batch) |-> batch[k].text], <<" ">>)

\* f"{batch_text}_{enhancement_level}"
cache_key(text, level) == text \o <<"_", level>>

\* re.split(r'[.!?]+', text), stripped, without the empty pieces. Splitting at
\* every terminator instead of at every run of them only adds empty pieces.
split_sentences(text) ==
    LET pieces == split_on(text, {".", "!", "?"})
        stripped == [k \in 1..Len(pieces) |-> strip(pieces[k])]
    IN SelectSeq(stripped, LAMBDA t : t # <<>>)

\* The text given to a segment without a sentence of its own: the variant
\* that hands out an empty text.
fallback_text_empty(segment) == <<>>

\* "enhanced_segments.append(segment.text)"
fallback_text(segment) == segment.text

RECURSIVE distribute_from(_, _, _, _)
\* The loop of _distribute_enhanced_text from segment i (1-based) on, with
\* sentence_index sentences already handed out.
distribute_from(sentences, batch, i, sentence_index) ==
    IF i > Len(batch) THEN <<>>
    ELSE LET sentences_per_segment == Len(sentences) \div Len(batch)
             remainder == Len(sentences) % Len(batch)
             num_sentences == sentences_per_segment + (IF i - 1 < remainder THEN 1 ELSE 0)
         IN IF sentence_index < Len(sentences)
            THEN <<join(SubSeq(sentences, sentence_index + 1,
                               Min(Len(sentences), sentence_index + num_sentences)),
                        <<".", " ">>) \o <<".">>>>
                 \o distribute_from(sentences, batch, i + 1, sentence_index + num_sentences)
            ELSE <<fallback_text(batch[i])>>
                 \o distribute_from(sentences, batch, i + 1, sentence_index)

\* _distribute_enhanced_text(enhanced_text, segments)
distribute_enhanced_text(enhanced_text, batch) ==
    IF batch = <<>> THEN <<>>
    ELSE distribute_from(split_sentences(enhanced_text), batch, 1, 0)

\* The text after the first occurrence of marker (parts[1] of
\* response.split(marker)), up to the next occurrence.
after_marker(response, marker) == split_on(response, {marker})[2]

\* _parse_enhanced_text(response)
parse_enhanced_text(response) ==
    IF "ENHANCED_TEXT:" \in Range(response)
    THEN strip(split_on(after_marker(response, "ENHANCED_TEXT:"), {"KEY_POINTS:"})[1])
    ELSE IF "ACADEMIC_TEXT:" \in Range(response)
    THEN strip(split_on(after_marker(response, "ACADEMIC_TEXT:"), {"KEY_CONCEPTS:"})[1])
    ELSE strip(response)

\* _generate_summary(text)
generate_summary(text) ==
    IF TextLen(text) < 100 THEN text
    ELSE strip(split_on(text, {"."})[1]) \o <<".">>

\* The EnhancementResult for one segment of a batch, in the variant that
\* records the enhanced text as the original one.
batch_result_of_enhanced(segment, enhanced_text) ==
    [original_text |-> enhanced_text,
     enhanced_text |-> enhanced_text,
     key_points |-> <<>>,
     summary |-> generate_summary(enhanced_text),
     confidence |-> 90,
     tokens_used |-> 0,
     cost |-> 0]

\* The EnhancementResult built for one segment of a batch.
batch_result(segment, enhanced_text) ==
    [original_text |-> segment.text,
     enhanced_text |-> enhanced_text,
     key_points |-> <<>>,
     summary |-> generate_summary(enhanced_text),
     confidence |-> 90,
     tokens_used |-> 0,
     cost |-> 0]

\* "for i, segment in enumerate(batch)": the results of one batch.
batch_results(batch, enhanced_segments) ==
    [k \in 1..Len(batch) |->
        batch_result(batch[k], IF k <= Len(enhanced_segments)
                               THEN enhanced_segments[k] ELSE batch[k].text)]

\* "cost = (tokens_used / 1000) * 0.003", in millionths of a dollar.
cost_of(tokens_used) == 3 * tokens_used

\* _update_stats(tokens, cost)
update_stats(st, tokens, cost) ==
    [st EXCEPT !.total_tokens = @ + tokens,
               !.total_cost = @ + cost,
               !.enhanced_segments = @ + 1]

\* A Python str held in the cache or returned from it.
str_value(text) == [type |-> "str", value |-> text]

\* An EnhancementResult held in the cache or returned from it.
result_value(result) == [type |-> "EnhancementResult", value |-> result]

\* self.cache[key] = value
cache_put(c, key, value) ==
    [k \in (DOMAIN c) \cup {key} |-> IF k = key THEN value ELSE c[k]]

\* The cost check in the variant without "max_cost_per_video > 0".
cost_limit_reached_any_limit(st, limit) == st.total_cost > limit

\* "self.config.max_cost_per_video > 0 and self.stats.total_cost > max_cost_per_video"
cost_limit_reached(st, limit) == limit > 0 /\ st.total_cost > limit

SegmentLists(n) ==
    UNION {{[k \in 1..m |-> [start_time |-> 50 * (k - 1), end_time |-> 50 * k,
                              text |-> ts[k]]] : ts \in [1..m -> SegmentTexts]}
           : m \in 0..n}

InitEnhance ==
    /\ pc = "idle"
    /\ segments \in SegmentLists(MaxEnhanceSegments)
    /\ target_tokens \in EnhanceTargets
    /\ enable_batching \in BOOLEAN
    /\ batches = <<>>
    /\ token_estimates = <<>>
    /\ cache_enhanced_results \in BOOLEAN
    /\ max_cost_per_video \in CostLimits
    /\ cache = <<>>
    /\ stats = EmptyStats
    /\ results = <<>>
    /\ batch_idx = 0
    /\ outcome = "none"
    /\ ApiIdle
    /\ SegmentIdle
    /\ DetectorIdle
    /\ RefineIdle
    /\ SlidesIdle
    /\ PipelineIdle
    /\ DistributeIdle
    /\ ParserIdle

\* After the body of the loop for batch batch_idx: the cost check, the next
\* batch, or the end of enhance_full_transcript.
AfterBatch(st, res) ==
    IF cost_limit_reached(st, max_cost_per_video) \/ batch_idx = Len(batches)
    THEN /\ pc' = "returned"
         /\ stats' = [st EXCEPT !.enhanced_segments = Len(res)]
         /\ batch_idx' = batch_idx
    ELSE /\ pc' = "loop"
         /\ stats' = st
         /\ batch_idx' = batch_idx + 1

\* enhance_full_transcript up to the loop: statistics reset, batches created.
EnhanceStart ==
    /\ pc = "idle"
    /\ batches' = create_batches(segments, target_tokens, enable_batching)
    /\ token_estimates' = segment_estimates(segments, enable_batching)
    /\ results' = <<>>
    /\ outcome' = "none"
    /\ IF batches' = <<>>
       THEN /\ pc' = "returned"
            /\ batch_idx' = 0
       ELSE /\ pc' = "loop"
            /\ batch_idx' = 1
    /\ stats' = [EmptyStats EXCEPT !.total_segments = Len(segments)]
    /\ UNCHANGED <<segments, target_tokens, enable_batching, cache_enhanced_results,
                   max_cost_per_video, cache>>
    /\ UNCHANGED <<detectorVars, refineVars, slideVars, pipelineVars, apiVars>>
    /\ UNCHANGED segmentVars
    /\ UNCHANGED <<distributeVars, parserVars>>

\* One iteration of the loop whose batch text is found in the cache, the
\* stored value being a string.
ProcessBatchCached ==
    /\ pc = "loop"
    /\ LET batch == batches[batch_idx]
           key == cache_key(combine_batch_text(batch), enhancement_level)
       IN /\ key \in DOMAIN cache /\ cache_enhanced_results
          /\ cache[key].type = "str" \/ batch = <<>>
          /\ LET res == results \o batch_results(batch,
                                      distribute_enhanced_text(cache[key].value, batch))
             IN /\ results' = res
                /\ AfterBatch(stats, res)
    /\ outcome' = "cached"
    /\ UNCHANGED <<segments, target_tokens, enable_batching, batches, token_estimates,
                   cache_enhanced_results, max_cost_per_video, cache>>
    /\ UNCHANGED <<detectorVars, refineVars, slideVars, pipelineVars, apiVars>>
    /\ UNCHANGED segmentVars
    /\ UNCHANGED <<distributeVars, parserVars>>

\* One iteration of the loop in which _call_claude_api returns a response.
ProcessBatchEnhanced ==
    /\ pc = "loop"
    /\ LET batch == batches[batch_idx]
           key == cache_key(combine_batch_text(batch), enhancement_level)
       IN /\ ~(key \in DOMAIN cache /\ cache_enhanced_results)
          /\ \E response \in Responses :
               LET enhanced_batch_text == parse_enhanced_text(response)
                   tokens_used == estimate_tokens(response)
                   st == update_stats(stats, tokens_used, cost_of(tokens_used))
                   res == results \o batch_results(batch,
                              distribute_enhanced_text(enhanced_batch_text, batch))
               IN /\ cache' = (IF cache_enhanced_results
                               THEN cache_put(cache, key, str_value(enhanced_batch_text))
                               ELSE cache)
                  /\ cache_writer' = (IF cache_enhanced_results
                                      THEN cache_put(cache_writer, key,
                                                     "enhance_full_transcript")
                                      ELSE cache_writer)
                  /\ results' = res
                  /\ AfterBatch(st, res)
    /\ outcome' = "ok"
    /\ api_calls' = api_calls + 1
    /\ UNCHANGED <<segments, target_tokens, enable_batching, batches, token_estimates,
                   cache_enhanced_results, max_cost_per_video>>
    /\ UNCHANGED <<detectorVars, refineVars, slideVars, pipelineVars, apiVars>>
    /\ UNCHANGED <<segment_text, segment_result, segment_outcome, segment_calls>>
    /\ UNCHANGED <<distributeVars, parserVars>>

\* One iteration of the loop in which _call_claude_api raises after its
\* retries: the except clause records the error and falls back to batch_text.
ProcessBatchFailed ==
    /\ pc = "loop"
    /\ LET batch == batches[batch_idx]
           batch_text == combine_batch_text(batch)
           key == cache_key(batch_text, enhancement_level)
       IN /\ ~(key \in DOMAIN cache /\ cache_enhanced_results)
          /\ LET st == [stats EXCEPT !.errors = Append(@, "error")]
                 res == results \o batch_results(batch,
                            distribute_enhanced_text(batch_text, batch))
             IN /\ results' = res
                /\ AfterBatch(st, res)
    /\ outcome' = "failed"
    /\ api_calls' = api_calls + 1
    /\ UNCHANGED <<segments, target_tokens, enable_batching, batches, token_estimates,
                   cache_enhanced_results, max_cost_per_video, cache>>
    /\ UNCHANGED <<detectorVars, refineVars, slideVars, pipelineVars, apiVars>>
    /\ UNCHANGED <<segment_text, segment_result, segment_outcome, segment_calls,
                   cache_writer>>
    /\ UNCHANGED <<distributeVars, parserVars>>

NextEnhance ==
    \/ EnhanceStart
    \/ ProcessBatchCached
    \/ ProcessBatchEnhanced
    \/ ProcessBatchFailed

SpecEnhance == InitEnhance /\ [][NextEnhance]_vars

----------------------------------------------------------------------------
(* Claims about the batch enhancement *)

\* C9: when the enhancement call for a batch fails, the error is recorded,
\* the results produced so far are left untouched, processing goes on with
\* the next batch if there is one, and every segment of the failed batch gets
\* a result whose enhanced_text is that segment's own original text.
C9_FailureFallsBackToOriginal ==
    [][ (pc = "loop" /\ outcome' = "failed") =>
            LET batch == batches[batch_idx]
            IN /\ Len(stats'.errors) = Len(stats.errors) + 1
               /\ Len(results') = Len(results) + Len(batch)
               /\ SubSeq(results', 1, Len(results)) = results
               /\ IF batch_idx < Len(batches)
                  THEN pc' = "loop" /\ batch_idx' = batch_idx + 1
                  ELSE pc' = "returned"
               /\ \A k \in 1..Len(batch) :
                     /\ results'[Len(results) + k].original_text = batch[k].text
                     /\ results'[Len(results) + k].enhanced_text = batch[k].text
      ]_vars

RECURSIVE SegmentsUpTo(_)
\* The number of segments in batches 1..n of the call.
SegmentsUpTo(n) == IF n = 0 THEN 0 ELSE SegmentsUpTo(n - 1) + Len(batches[n])

\* C26: enhance_full_transcript returns its results in segment order,
\* results[i].original_text being the text of segment i; they cover all the
\* segments unless the cost limit stopped the loop, and then exactly the
\* segments of the batches processed so far.
C26_ResultsArePrefix ==
    pc = "returned" =>
        /\ Len(results) <= Len(segments)
        /\ \A i \in 1..Len(results) : results[i].original_text = segments[i].text
        /\ Len(results) = SegmentsUpTo(batch_idx)
        /\ ~(max_cost_per_video > 0 /\ stats.total_cost > max_cost_per_video)
              => Len(results) = Len(segments)

\* C26 witness: a call stopped by the cost limit that returned a result for
\* the first of two segments only.
C26_Witness ==
    /\ pc = "returned"
    /\ Len(segments) = 2
    /\ Len(results) = 1
    /\ results[1].original_text = segments[1].text
    /\ segments[2].text # segments[1].text

\* C27: with max_cost_per_video > 0 no batch is taken up once
\* stats.total_cost has exceeded max_cost_per_video at the end of a batch;
\* with max_cost_per_video <= 0 the call ends only after its last batch.
C27_CostLimitStops ==
    /\ (pc = "loop" /\ max_cost_per_video > 0)
          => stats.total_cost <= max_cost_per_video
    /\ (pc = "returned" /\ max_cost_per_video <= 0)
          => batch_idx = Len(batches)

\* C27 witness: the call returned with the cost above a positive limit and
\* batches left over.
C27_Witness ==
    /\ pc = "returned"
    /\ max_cost_per_video > 0
    /\ stats.total_cost > max_cost_per_video
    /\ batch_idx < Len(batches)
    /\ outcome = "ok"

----------------------------------------------------------------------------
(* Batch mode: batch_processor.process_video_batch calling main.main *)

\* Most URLs in one batch.
MaxUrls == 3

\* What can happen when main() runs on a URL:
\*   ok                 the pipeline completes and main() returns
\*   setup_error        an exception before main()'s try block (os.makedirs)
\*   interrupted        a KeyboardInterrupt before main()'s try block
\*   invalid_url        validate_url rejects the URL
\*   download_error     an exception inside the try block
\*   no_frames          extract_frames returns no frame
\*   no_scene_changes   detect_scenes and detect_scenes_advanced both return []
VideoConditions ==
    {"ok", "setup_error", "interrupted", "invalid_url", "download_error",
     "no_frames", "no_scene_changes"}

\* The conditions that are failures of the pipeline for one video.
PipelineFailures ==
    {"setup_error", "invalid_url", "download_error", "no_frames", "no_scene_changes"}

\* How main() ends: it returns, or leaves by an exception.
\*   invalid_url: sys.exit(1) before the try block;
\*   download_error: caught by "except Exception", which calls sys.exit(1);
\*   no_frames, no_scene_changes: sys.exit(1) inside the try block, which
\*   neither except clause catches;
\*   setup_error, interrupted: raised outside the try block.
main_ends(condition) ==
    CASE condition = "ok" -> "returns"
      [] condition = "setup_error" -> "Exception"
      [] condition = "interrupted" -> "KeyboardInterrupt"
      [] OTHER -> "SystemExit"

InitPipeline ==
    /\ pc = "running"
    /\ videos \in UNION {[1..n -> VideoConditions] : n \in 1..MaxUrls}
    /\ continue_on_error \in BOOLEAN
    /\ video_idx = 1
    /\ video_results = [successful |-> 0, failed |-> 0, errors |-> <<>>]
    /\ MainIdle
    /\ BatchIdle
    /\ DetectorIdle
    /\ RefineIdle
    /\ SlidesIdle
    /\ EnhanceIdle
    /\ DistributeIdle
    /\ ParserIdle

\* After one iteration that did not break: the next URL or the return.
NextUrl ==
    IF video_idx < Len(videos)
    THEN pc' = "running" /\ video_idx' = video_idx + 1
    ELSE pc' = "returned" /\ video_idx' = video_idx

\* One iteration of the loop in which main() returns.
VideoSucceeds ==
    /\ pc = "running"
    /\ main_ends(videos[video_idx]) = "returns"
    /\ video_results' = [video_results EXCEPT !.successful = @ + 1]
    /\ NextUrl
    /\ UNCHANGED <<videos, continue_on_error>>
    /\ UNCHANGED <<batchVars, detectorVars, refineVars, slideVars, enhanceVars,
                   mainVars>>
    /\ UNCHANGED <<distributeVars, parserVars>>

\* One iteration in which main() raises an Exception: "except Exception".
VideoFails ==
    /\ pc = "running"
    /\ main_ends(videos[video_idx]) = "Exception"
    /\ video_results' = [video_results EXCEPT !.failed = @ + 1,
                                              !.errors = Append(@, video_idx)]
    /\ IF continue_on_error
       THEN NextUrl
       ELSE pc' = "returned" /\ video_idx' = video_idx
    /\ UNCHANGED <<videos, continue_on_error>>
    /\ UNCHANGED <<batchVars, detectorVars, refineVars, slideVars, enhanceVars,
                   mainVars>>
    /\ UNCHANGED <<distributeVars, parserVars>>

\* One iteration in which main() raises KeyboardInterrupt: the loop breaks.
VideoInterrupted ==
    /\ pc = "running"
    /\ main_ends(videos[video_idx]) = "KeyboardInterrupt"
    /\ pc' = "returned"
    /\ UNCHANGED <<videos, continue_on_error, video_idx, video_results>>
    /\ UNCHANGED <<batchVars, detectorVars, refineVars, slideVars, enhanceVars,
                   mainVars>>
    /\ UNCHANGED <<distributeVars, parserVars>>

\* One iteration in which main() raises SystemExit: no except clause of
\* process_video_batch catches it, and the interpreter exits.
VideoExits ==
    /\ pc = "running"
    /\ main_ends(videos[video_idx]) = "SystemExit"
    /\ pc' = "terminated"
    /\ UNCHANGED <<videos, continue_on_error, video_idx, video_results>>
    /\ UNCHANGED <<batchVars, detectorVars, refineVars, slideVars, enhanceVars,
                   mainVars>>
    /\ UNCHANGED <<distributeVars, parserVars>>

NextPipeline ==
    \/ VideoSucceeds
    \/ VideoFails
    \/ VideoInterrupted
    \/ VideoExits

SpecPipeline == InitPipeline /\ [][NextPipeline]_vars

----------------------------------------------------------------------------
(* Claims about batch mode *)

FailedVideos == {k \in 1..Len(videos) : videos[k] \in PipelineFailures}

\* C10: with continue-on-error, a pipeline failure of one video (no frames,
\* no scene changes, ...) aborts that video only: the process is not
\* terminated, and process_video_batch returns after it has gone through every
\* URL, with exactly the failed videos recorded as failed.
C10_BatchContinuesOnError ==
    (continue_on_error /\ \A k \in 1..Len(videos) : videos[k] # "interrupted") =>
        /\ pc # "terminated"
        /\ pc = "returned" =>
              /\ video_idx = Len(videos)
              /\ video_results.failed = Cardinality(FailedVideos)
              /\ Range(video_results.errors) = FailedVideos
              /\ video_results.successful + video_results.failed = Len(videos)

----------------------------------------------------------------------------
(* Single-video pipeline: main.main *)

\* "if not scene_changes": the variant that always tries the advanced path.
no_scene_changes_always(changes) == TRUE

\* "if not scene_changes"
no_scene_changes(changes) == changes = <<>>

\* config.intro_outro_duration in the pipeline runs: 0 s and 10 s.
MainIntroOutroDurations == {0, 100}

\* metadata.duration: 300 s.
MainVideoDuration == 3000

InitMain ==
    /\ pc = "extract_frames"
    /\ main_min_time \in MinTimeChoices
    /\ main_frames = <<>>
    /\ main_last_capture_time = 0
    /\ primary_invoked = FALSE
    /\ primary_returned = FALSE
    /\ primary_changes = <<>>
    /\ advanced_invoked = FALSE
    /\ advanced_returned = FALSE
    /\ advanced_changes = <<>>
    /\ main_scene_changes = <<>>
    /\ produced = {}
    /\ main_interrupted = FALSE
    /\ BatchIdle
    /\ DetectorIdle
    /\ RefineIdle
    /\ SlidesIdle
    /\ EnhanceIdle
    /\ BatchModeIdle
    /\ DistributeIdle
    /\ ParserIdle

\* What no step of main() changes: the variables of the other components.
MainOthersUnchanged ==
    /\ UNCHANGED <<batchVars, detectorVars, refineVars, slideVars, enhanceVars,
                   batchModeVars>>
    /\ UNCHANGED <<distributeVars, parserVars>>

\* The two detection calls as main() has seen them.
detectionVars ==
    <<main_last_capture_time, primary_invoked, primary_returned, primary_changes,
      advanced_invoked, advanced_returned, advanced_changes>>

\* "frames = video_processor.extract_frames(start_time, end_time)" and the
\* test "if not frames", after the download succeeded.
MainExtractFrames ==
    /\ pc = "extract_frames"
    /\ \E frames \in FrameLists :
          /\ main_frames' = frames
          /\ pc' = IF frames = <<>> THEN "no_frames" ELSE "detect_scenes"
    /\ UNCHANGED <<main_min_time, detectionVars, main_scene_changes, produced,
                   main_interrupted>>
    /\ MainOthersUnchanged

\* "scene_changes = scene_detector.detect_scenes(frames)" on the detector
\* constructed for this run: the call returns.
MainDetectScenes ==
    /\ pc = "detect_scenes"
    /\ \E scores \in PairScores(main_frames) :
          LET r == detect_scenes(main_frames, scores, main_last_capture_time,
                                 main_min_time)
          IN /\ primary_changes' = r.accepted
             /\ main_scene_changes' = r.accepted
             /\ main_last_capture_time' = r.last
             /\ pc' = IF no_scene_changes(r.accepted)
                      THEN "detect_scenes_advanced" ELSE "filter_changes_by_confidence"
    /\ primary_invoked' = TRUE
    /\ primary_returned' = TRUE
    /\ UNCHANGED <<main_min_time, main_frames, advanced_invoked, advanced_returned,
                   advanced_changes, produced, main_interrupted>>
    /\ MainOthersUnchanged

\* "scene_changes = scene_detector.detect_scenes_advanced(video_path)" and the
\* second test "if not scene_changes". A detect() that raises gives the empty
\* list, as a detect() that reports no scene does.
MainDetectScenesAdvanced ==
    /\ pc = "detect_scenes_advanced"
    /\ \E scenes \in SceneLists :
          LET r == detect_scenes_advanced(scenes, main_last_capture_time,
                                          main_min_time)
          IN /\ advanced_changes' = r.accepted
             /\ main_scene_changes' = r.accepted
             /\ main_last_capture_time' = r.last
             /\ pc' = IF no_scene_changes(r.accepted)
                      THEN "no_scene_changes" ELSE "filter_changes_by_confidence"
    /\ advanced_invoked' = TRUE
    /\ advanced_returned' = TRUE
    /\ UNCHANGED <<main_min_time, main_frames, primary_invoked, primary_returned,
                   primary_changes, produced, main_interrupted>>
    /\ MainOthersUnchanged

\* The body of "if not frames" and of the second "if not scene_changes":
\* the error is printed and sys.exit(1) ends the run.
MainExits ==
    /\ pc \in {"no_frames", "no_scene_changes"}
    /\ pc' = "exited"
    /\ UNCHANGED <<main_min_time, main_frames, detectionVars, main_scene_changes,
                   produced, main_interrupted>>
    /\ MainOthersUnchanged

\* "scene_changes = scene_detector.filter_changes_by_confidence(scene_changes,
\* min_confidence=0.3)"
MainFilterChanges ==
    /\ pc = "filter_changes_by_confidence"
    /\ main_scene_changes' = filter_changes_by_confidence(main_scene_changes, 30)
    /\ pc' = "merge_nearby_changes"
    /\ UNCHANGED <<main_min_time, main_frames, detectionVars, produced,
                   main_interrupted>>
    /\ MainOthersUnchanged

\* "scene_changes = scene_detector.merge_nearby_changes(scene_changes,
\* time_threshold=1.0)"
MainMergeChanges ==
    /\ pc = "merge_nearby_changes"
    /\ main_scene_changes' = merge_nearby_changes(main_scene_changes, 10)
    /\ pc' = "skip_intro_outro"
    /\ UNCHANGED <<main_min_time, main_frames, detectionVars, produced,
                   main_interrupted>>
    /\ MainOthersUnchanged

\* "scene_changes = scene_detector.skip_intro_outro(scene_changes,
\* metadata.duration)"
MainSkipIntroOutro ==
    /\ pc = "skip_intro_outro"
    /\ \E enabled \in BOOLEAN, intro_outro \in MainIntroOutroDurations :
          main_scene_changes' = skip_intro_outro(main_scene_changes, MainVideoDuration,
                                                 enabled, intro_outro)
    /\ pc' = "save_screenshots"
    /\ UNCHANGED <<main_min_time, main_frames, detectionVars, produced,
                   main_interrupted>>
    /\ MainOthersUnchanged

\* "screenshot_paths = document_generator.save_screenshots(frames, scene_changes)"
MainSaveScreenshots ==
    /\ pc = "save_screenshots"
    /\ produced' = produced \cup {"screenshots"}
    /\ pc' = "create_slides"
    /\ UNCHANGED <<main_min_time, main_frames, detectionVars, main_scene_changes,
                   main_interrupted>>
    /\ MainOthersUnchanged

\* "initial_slides = document_generator._create_slides(scene_changes,
\* transcript_parser)", with the optional enhancement of the slides, whose
\* failure main() catches.
MainCreateSlides ==
    /\ pc = "create_slides"
    /\ produced' = produced \cup {"slides"}
    /\ pc' = "create_presentation"
    /\ UNCHANGED <<main_min_time, main_frames, detectionVars, main_scene_changes,
                   main_interrupted>>
    /\ MainOthersUnchanged

\* "output_path = document_generator.create_presentation_with_slides(...)"
MainCreatePresentation ==
    /\ pc = "create_presentation"
    /\ produced' = produced \cup {"document"}
    /\ pc' = "cleanup"
    /\ UNCHANGED <<main_min_time, main_frames, detectionVars, main_scene_changes,
                   main_interrupted>>
    /\ MainOthersUnchanged

\* "video_processor.cleanup()", the saving of the cache, the closing summary
\* and the return of main(); cleanup and save_cache catch their exceptions.
MainCleanup ==
    /\ pc = "cleanup"
    /\ pc' = "returned"
    /\ UNCHANGED <<main_min_time, main_frames, detectionVars, main_scene_changes,
                   produced, main_interrupted>>
    /\ MainOthersUnchanged

\* What a step that is abandoned half-way may have produced already: some
\* screenshot files, some slides, the document file.
produced_when_abandoned(step, done) ==
    CASE step = "save_screenshots" -> {done, done \cup {"screenshots"}}
      [] step = "create_slides" -> {done, done \cup {"slides"}}
      [] step = "create_presentation" -> {done, done \cup {"document"}}
      [] OTHER -> {done}

\* A step of the try block raises an Exception: "except Exception" prints the
\* error and calls sys.exit(1). In detect_scenes the exception comes from the
\* similarity measures of the frame pairs, before the filter loop, so the
\* call has started, has not returned and has not moved last_capture_time;
\* with fewer than 2 frames the call returns before them.
\* detect_scenes_advanced, cleanup and save_cache catch their own exceptions,
\* and the three refinements of the scene changes raise none.
MainFails ==
    /\ pc \in {"extract_frames", "detect_scenes", "save_screenshots", "create_slides",
               "create_presentation"}
    /\ pc = "detect_scenes" => Len(main_frames) >= 2
    /\ primary_invoked' = (primary_invoked \/ pc = "detect_scenes")
    /\ produced' \in produced_when_abandoned(pc, produced)
    /\ pc' = "exited"
    /\ UNCHANGED <<main_min_time, main_frames, main_last_capture_time,
                   primary_returned, primary_changes, advanced_invoked,
                   advanced_returned, advanced_changes, main_scene_changes,
                   main_interrupted>>
    /\ MainOthersUnchanged

\* A KeyboardInterrupt arrives before or during a step of the try block, a
\* detection call excepted: "except KeyboardInterrupt" prints "Extraction
\* interrupted by user" and calls sys.exit(1). The step's assignment has not
\* been made; what it writes may be there in part.
MainInterrupted ==
    /\ pc \in {"extract_frames", "no_frames", "detect_scenes",
               "detect_scenes_advanced", "no_scene_changes",
               "filter_changes_by_confidence", "merge_nearby_changes",
               "skip_intro_outro", "save_screenshots", "create_slides",
               "create_presentation", "cleanup"}
    /\ produced' \in produced_when_abandoned(pc, produced)
    /\ pc' = "exited"
    /\ main_interrupted' = TRUE
    /\ UNCHANGED <<main_min_time, main_frames, detectionVars, main_scene_changes>>
    /\ MainOthersUnchanged

\* The values last_capture_time can hold while the filter loop of a detection
\* call runs over `changes`: the value after each prefix of the loop.
watermarks_during(changes, last, min_time) ==
    {apply_gate(SubSeq(changes, 1, k), last, min_time).last : k \in 0..Len(changes)}

\* A KeyboardInterrupt arrives inside detect_scenes: the call has started and
\* never returns, so main()'s scene_changes is not assigned; the filter loop
\* may have advanced last_capture_time.
MainInterruptedInDetectScenes ==
    /\ pc = "detect_scenes"
    /\ \E scores \in PairScores(main_frames) :
          main_last_capture_time' \in
              (IF Len(main_frames) < 2 THEN {main_last_capture_time}
               ELSE watermarks_during(all_changes(main_frames, scores),
                                      main_last_capture_time, main_min_time))
    /\ primary_invoked' = TRUE
    /\ pc' = "exited"
    /\ main_interrupted' = TRUE
    /\ UNCHANGED <<main_min_time, main_frames, primary_returned, primary_changes,
                   advanced_invoked, advanced_returned, advanced_changes,
                   main_scene_changes, produced>>
    /\ MainOthersUnchanged

\* A KeyboardInterrupt arrives inside detect_scenes_advanced, whose
\* "except Exception" does not catch it: the call never returns.
MainInterruptedInDetectScenesAdvanced ==
    /\ pc = "detect_scenes_advanced"
    /\ \E scenes \in SceneLists :
          main_last_capture_time' \in
              watermarks_during(content_changes(scenes), main_last_capture_time,
                                main_min_time)
    /\ advanced_invoked' = TRUE
    /\ pc' = "exited"
    /\ main_interrupted' = TRUE
    /\ UNCHANGED <<main_min_time, main_frames, primary_invoked, primary_returned,
                   primary_changes, advanced_returned, advanced_changes,
                   main_scene_changes, produced>>
    /\ MainOthersUnchanged

NextMain ==
    \/ MainExtractFrames
    \/ MainDetectScenes
    \/ MainDetectScenesAdvanced
    \/ MainExits
    \/ MainFilterChanges
    \/ MainMergeChanges
    \/ MainSkipIntroOutro
    \/ MainSaveScreenshots
    \/ MainCreateSlides
    \/ MainCreatePresentation
    \/ MainCleanup
    \/ MainFails
    \/ MainInterrupted
    \/ MainInterruptedInDetectScenes
    \/ MainInterruptedInDetectScenesAdvanced

SpecMain == InitMain /\ [][NextMain]_vars

----------------------------------------------------------------------------
(* Claims about the single-video pipeline *)

\* C16: detect_scenes_advanced is invoked only after detect_scenes, run on
\* the sampled frames, returned no change, never after it returned a change,
\* and whenever detect_scenes returned no change the next step of the
\* pipeline is the call of detect_scenes_advanced -- a run the user
\* interrupts (KeyboardInterrupt) before that call ends without it; when both
\* calls returned no change the run goes on to nothing but its exit
\* (sys.exit(1), or the exit of an interrupt that arrives first) and no
\* screenshot, slide or document is produced.
C16_AdvancedFallback ==
    /\ advanced_invoked => (primary_returned /\ primary_changes = <<>>)
    /\ (primary_returned /\ primary_changes = <<>> /\ ~main_interrupted
           /\ pc # "detect_scenes_advanced")
          => advanced_invoked
    /\ (primary_returned /\ primary_changes # <<>>) => ~advanced_invoked
    /\ (advanced_returned /\ advanced_changes = <<>>)
          => (pc \in {"no_scene_changes", "exited"} /\ produced = {})

\* C16 witness: detect_scenes on two frames and detect_scenes_advanced both
\* returned no change, and the run ended by the second "if not scene_changes"
\* (no interrupt).
C16_Witness ==
    /\ pc = "exited"
    /\ ~main_interrupted
    /\ Len(main_frames) >= 2
    /\ primary_returned
    /\ primary_changes = <<>>
    /\ advanced_returned
    /\ advanced_changes = <<>>
    /\ produced = {}

----------------------------------------------------------------------------
(* One enhancement request: TranscriptEnhancer._call_claude_api *)

\* "max_retries = 3"
max_retries == 3

\* "retry_delay = 1", in seconds.
retry_delay == 1

\* The enhancement_level argument.
EnhancementLevels == {"basic", "detailed", "academic"}

RECURSIVE Pow2(_)
\* 2 ** n
Pow2(n) == IF n = 0 THEN 1 ELSE 2 * Pow2(n - 1)

\* The retry test: the variant that also retries after the last attempt.
may_retry_after_last(attempt_index) == attempt_index < max_retries

\* "if attempt < max_retries - 1"
may_retry(attempt_index) == attempt_index < max_retries - 1

\* "wait_time = retry_delay * (2 ** attempt)" after a RateLimitError,
\* retry_delay after any other exception.
wait_time(failure, attempt_index) ==
    IF failure = "RateLimitError" THEN retry_delay * Pow2(attempt_index)
    ELSE retry_delay

InitApiCall ==
    /\ pc = "attempt"
    /\ api_prompt \in SegmentTexts
    /\ api_level \in EnhancementLevels
    /\ attempt = 0
    /\ outstanding = 0
    /\ attempt_log = <<>>
    /\ sleeps = <<>>
    /\ api_response = <<>>
    /\ api_raised = "none"
    /\ BatchIdle
    /\ DetectorIdle
    /\ RefineIdle
    /\ SlidesIdle
    /\ LoopIdle
    /\ SegmentIdle
    /\ PipelineIdle
    /\ DistributeIdle
    /\ ParserIdle

\* "response = self.client.messages.create(...)": the request goes out.
ApiSend ==
    /\ pc = "attempt"
    /\ outstanding' = outstanding + 1
    /\ pc' = "in_flight"
    /\ UNCHANGED <<api_prompt, api_level, attempt, attempt_log, sleeps, api_response,
                   api_raised>>
    /\ UNCHANGED <<batchVars, detectorVars, refineVars, slideVars, loopVars,
                   segmentVars, pipelineVars>>
    /\ UNCHANGED <<distributeVars, parserVars>>

\* The request is answered: "return response.content[0].text".
ApiResponds ==
    /\ pc = "in_flight"
    /\ outstanding' = outstanding - 1
    /\ \E response \in Responses : api_response' = response
    /\ attempt_log' = Append(attempt_log, "ok")
    /\ pc' = "returned"
    /\ UNCHANGED <<api_prompt, api_level, attempt, sleeps, api_raised>>
    /\ UNCHANGED <<batchVars, detectorVars, refineVars, slideVars, loopVars,
                   segmentVars, pipelineVars>>
    /\ UNCHANGED <<distributeVars, parserVars>>

\* What both except clauses do after the request failed with `failure`: sleep
\* and go to the next iteration of "for attempt in range(max_retries)", or
\* re-raise; a loop that runs out of iterations returns None.
after_failure(failure) ==
    /\ outstanding' = outstanding - 1
    /\ attempt_log' = Append(attempt_log, failure)
    /\ IF may_retry(attempt)
       THEN /\ sleeps' = Append(sleeps, wait_time(failure, attempt))
            /\ attempt' = attempt + 1
            /\ pc' = IF attempt + 1 < max_retries THEN "attempt" ELSE "returned"
            /\ UNCHANGED api_raised
       ELSE /\ api_raised' = failure
            /\ pc' = "raised"
            /\ UNCHANGED <<sleeps, attempt>>
    /\ UNCHANGED <<api_prompt, api_level, api_response>>
    /\ UNCHANGED <<batchVars, detectorVars, refineVars, slideVars, loopVars,
                   segmentVars, pipelineVars>>
    /\ UNCHANGED <<distributeVars, parserVars>>

\* The request fails with anthropic.RateLimitError.
ApiRateLimited ==
    /\ pc = "in_flight"
    /\ after_failure("RateLimitError")

\* The request fails with any other exception.
ApiFails ==
    /\ pc = "in_flight"
    /\ after_failure("Exception")

NextApiCall ==
    \/ ApiSend
    \/ ApiResponds
    \/ ApiRateLimited
    \/ ApiFails

SpecApiCall == InitApiCall /\ [][NextApiCall]_vars

----------------------------------------------------------------------------
(* Claims about one enhancement request *)

\* The attempts that got an answer or a failure, and the one in flight.
AttemptsMade == Len(attempt_log) + outstanding

\* C17: the attempts of one request follow one another, never two in flight;
\* there are at most 3; the call returns the response of the first attempt
\* that succeeds, and always a response; it raises exactly when 3 attempts
\* failed, and then the failure of the third.
C17_BoundedRetries ==
    /\ outstanding \in {0, 1}
    /\ AttemptsMade <= 3
    /\ \A k \in 1..(Len(attempt_log) - 1) : attempt_log[k] # "ok"
    /\ pc = "returned" =>
          /\ outstanding = 0
          /\ attempt_log # <<>>
          /\ attempt_log[Len(attempt_log)] = "ok"
          /\ api_response \in Responses
          /\ api_raised = "none"
    /\ pc = "raised" =>
          /\ outstanding = 0
          /\ Len(attempt_log) = 3
          /\ \A k \in 1..3 : attempt_log[k] # "ok"
          /\ api_raised = attempt_log[3]
    /\ (Len(attempt_log) = 3 /\ \A k \in 1..3 : attempt_log[k] # "ok") =>
          pc = "raised"

\* C17 witness: the third attempt succeeded after a rate limit and another
\* failure, with waits of 1 s each between the attempts.
C17_Witness ==
    /\ pc = "returned"
    /\ attempt_log = <<"RateLimitError", "Exception", "ok">>
    /\ sleeps = <<1, 1>>
    /\ api_response \in Responses

----------------------------------------------------------------------------
(* Sentence distribution: TranscriptEnhancer._distribute_enhanced_text *)

\* Longest batch handed to _distribute_enhanced_text.
MaxDistributeSegments == 3

\* Enhanced texts: "", "c", "c. d", the two lines "c." and "d", "c! d? e",
\* "c. d. e. f." and " .. ".
DistributeTexts ==
    {<<>>,
     <<"c">>,
     <<"c", ".", " ", "d">>,
     <<"c", ".", "\n", "d">>,
     <<"c", "!", " ", "d", "?", " ", "e">>,
     <<"c", ".", " ", "d", ".", " ", "e", ".", " ", "f", ".">>,
     <<" ", ".", ".", " ">>}

InitDistribute ==
    /\ pc = "start"
    /\ distribute_text \in DistributeTexts
    /\ batch_segments \in SegmentLists(MaxDistributeSegments)
    /\ distributed = <<>>
    /\ BatchIdle
    /\ DetectorIdle
    /\ RefineIdle
    /\ SlidesIdle
    /\ EnhanceIdle
    /\ PipelineIdle
    /\ ParserIdle

\* A call of _distribute_enhanced_text.
DistributeEnhancedText ==
    /\ pc = "start"
    /\ distributed' = distribute_enhanced_text(distribute_text, batch_segments)
    /\ pc' = "distributed"
    /\ UNCHANGED <<distribute_text, batch_segments>>
    /\ UNCHANGED <<batchVars, detectorVars, refineVars, slideVars, enhanceVars,
                   pipelineVars, parserVars>>

NextDistribute == DistributeEnhancedText

SpecDistribute == InitDistribute /\ [][NextDistribute]_vars

----------------------------------------------------------------------------
(* Claims about the sentence distribution *)

RECURSIVE RunStart(_, _)
\* The number of sentences in the runs before run i.
RunStart(runs, i) == IF i = 1 THEN 0 ELSE RunStart(runs, i - 1) + runs[i - 1]

\* C24: the returned list has one text per segment; the sentences of the
\* enhanced text are handed out in order as contiguous runs that take every
\* sentence once, whose lengths differ by at most one with the longer runs
\* first; a segment with an empty run keeps its original text.
C24_SentenceRuns ==
    pc = "distributed" =>
        LET sentences == split_sentences(distribute_text)
            m == Len(batch_segments)
        IN /\ Len(distributed) = m
           /\ m > 0 =>
                \E runs \in [1..m -> 0..Len(sentences)] :
                    /\ RunStart(runs, m) + runs[m] = Len(sentences)
                    /\ \A i \in 1..(m - 1) : runs[i] >= runs[i + 1]
                    /\ runs[1] - runs[m] <= 1
                    /\ \A i \in 1..m :
                          IF runs[i] = 0
                          THEN distributed[i] = batch_segments[i].text
                          ELSE distributed[i] =
                                  join(SubSeq(sentences, RunStart(runs, i) + 1,
                                              RunStart(runs, i) + runs[i]),
                                       <<".", " ">>) \o <<".">>

\* C24 witness: two sentences over three segments: the first two segments
\* got one sentence each and the third kept its text.
C24_Witness ==
    /\ pc = "distributed"
    /\ distribute_text = <<"c", ".", " ", "d">>
    /\ Len(batch_segments) = 3
    /\ distributed = <<<<"c", ".">>, <<"d", ".">>, batch_segments[3].text>>

----------------------------------------------------------------------------
(* The parser's segments: TranscriptParser.load_subtitles and
   TranscriptParser.set_enhanced_segments *)

\* Most cues of a subtitle file, and most results handed to the parser.
MaxParserSegments == 2

\* Cue texts as a subtitle file holds them: "a", "b " and a blank one.
CueTexts == {<<"a">>, <<"b", " ">>, <<" ">>}

\* TranscriptSegment(text = ...) after __post_init__: no key points, no
\* summary, and the text itself as enhanced text.
TranscriptSegment(text) ==
    [text |-> text, enhanced_text |-> text, key_points |-> <<>>, summary |-> <<>>]

\* The fields of an EnhancementResult that set_enhanced_segments reads.
EnhancementResults ==
    {[enhanced_text |-> <<"x">>, key_points |-> <<>>, summary |-> <<>>],
     [enhanced_text |-> <<"y">>, key_points |-> <<<<"k">>>>, summary |-> <<"s">>],
     [enhanced_text |-> <<"a">>, key_points |-> <<<<"k">>>>, summary |-> <<>>]}

\* The cue lists of a file.
CueLists == UNION {[1..n -> CueTexts] : n \in 0..MaxParserSegments}

\* A subtitle file is a record: `manual` says that the lower-cased name holds
\* "manual" and `auto` that it holds "auto" or "generated"; the format is the
\* suffix, with the two layouts of a .json file told apart and "txt" for a
\* suffix the parser does not support; cues are the cues written in the
\* file before any damage; damage is "none", "entry" when an entry the
\* format's parser cannot read follows the cues in a file it can otherwise
\* read (a timestamp line without " --> ", an entry that is no object), and
\* "file" when the file cannot be read as a whole (it is missing, cut off, no
\* JSON, not UTF-8).
SubtitleFormats == {"srt", "vtt", "json_events", "json_captions", "txt"}

\* _parse_srt_file: the file is read and srt.parse has gone through all of it
\* before self.segments is replaced, so any damage leaves the segments alone.
parse_srt_file(segs, file) ==
    IF file.damage # "none"
    THEN [segments |-> segs, returned |-> FALSE]
    ELSE [segments |-> [i \in 1..Len(file.cues) |-> TranscriptSegment(strip(file.cues[i]))],
          returned |-> Len(file.cues) > 0]

\* _parse_vtt_file: a file that cannot be read raises before self.segments is
\* emptied; otherwise the segments are emptied first and every cue before a
\* malformed timestamp line has been appended when the exception is caught.
\* The segment of a cue is constructed with text "", so that __post_init__
\* leaves enhanced_text empty, and is given the stripped text line afterwards.
parse_vtt_file(segs, file) ==
    LET vtt_segment(raw) == [TranscriptSegment(<<>>) EXCEPT !.text = strip(raw)]
    IN IF file.damage = "file"
       THEN [segments |-> segs, returned |-> FALSE]
       ELSE [segments |-> [i \in 1..Len(file.cues) |-> vtt_segment(file.cues[i])],
             returned |-> file.damage = "none" /\ Len(file.cues) > 0]

\* _parse_json_file: json.load raises on a file that is no JSON before
\* self.segments is emptied; otherwise, of a file with 'events' the events
\* without text ("if text.strip()") are skipped, of a file with 'captions'
\* every caption gives a segment, and the segments built before an entry
\* that is no object stay.
parse_json_file(segs, file) ==
    LET has_text(raw) == strip(raw) # <<>>
        kept == IF file.format = "json_events" THEN SelectSeq(file.cues, has_text)
                ELSE file.cues
    IN IF file.damage = "file"
       THEN [segments |-> segs, returned |-> FALSE]
       ELSE [segments |-> [i \in 1..Len(kept) |-> TranscriptSegment(strip(kept[i]))],
             returned |-> file.damage = "none" /\ Len(kept) > 0]

\* _parse_subtitle_file: self.segments afterwards and the value returned.
parse_subtitle_file(segs, file) ==
    CASE file.format = "srt" -> parse_srt_file(segs, file)
      [] file.format = "vtt" -> parse_vtt_file(segs, file)
      [] file.format \in {"json_events", "json_captions"} -> parse_json_file(segs, file)
      [] OTHER -> [segments |-> segs, returned |-> FALSE]

\* "manual" in f.lower() or not any(x in f.lower() for x in ["auto", "generated"])
is_manual(file) == file.manual \/ ~file.auto

\* any(x in f.lower() for x in ["auto", "generated"])
is_auto(file) == file.auto

RECURSIVE try_files(_, _)
\* The two loops of load_subtitles: the first file that parses ends the call.
try_files(segs, files) ==
    IF files = <<>> THEN [segments |-> segs, returned |-> FALSE]
    ELSE LET r == parse_subtitle_file(segs, Head(files))
         IN IF r.returned THEN r ELSE try_files(r.segments, Tail(files))

\* load_subtitles(subtitle_files): manual captions are tried before
\* auto-generated ones; a file whose name holds both "manual" and "auto" is in
\* both lists and is tried again in the second loop when no file parsed.
load_subtitles(segs, files) ==
    try_files(segs, SelectSeq(files, is_manual) \o SelectSeq(files, is_auto))

\* The subtitle_files handed to load_subtitles: no file, one file with a
\* plain name (the damage of a damaged file counts among its
\* MaxParserSegments cues), and a file with "auto" in its name (with or
\* without "manual", damaged or not) listed before a file with a plain name.
SubtitleFileLists ==
    {<<>>}
    \cup {<<[manual |-> FALSE, auto |-> FALSE, format |-> "txt", cues |-> <<>>,
            damage |-> "none"]>>}
    \cup {<<[manual |-> FALSE, auto |-> FALSE, format |-> fmt, cues |-> cues,
            damage |-> "none"]>> :
            fmt \in SubtitleFormats \ {"txt"}, cues \in CueLists}
    \cup {<<[manual |-> FALSE, auto |-> FALSE, format |-> fmt, cues |-> cues,
            damage |-> "entry"]>> :
            fmt \in {"vtt", "json_events", "json_captions"},
            cues \in {c \in CueLists : Len(c) < MaxParserSegments}}
    \cup {<<[manual |-> FALSE, auto |-> FALSE, format |-> fmt, cues |-> cues,
            damage |-> "file"]>> :
            fmt \in {"srt", "json_events", "json_captions"},
            cues \in {c \in CueLists : Len(c) < MaxParserSegments}}
    \cup {<<[manual |-> FALSE, auto |-> FALSE, format |-> "vtt", cues |-> <<>>,
            damage |-> "file"]>>}
    \cup {<<[manual |-> named, auto |-> TRUE, format |-> fmt, cues |-> <<<<"a">>>>,
            damage |-> damage],
           [manual |-> FALSE, auto |-> FALSE, format |-> other, cues |-> cues,
            damage |-> "none"]>> :
            named \in BOOLEAN, fmt \in {"json_captions", "vtt"},
            damage \in {"none", "entry", "file"},
            other \in {"srt", "vtt"}, cues \in {<<>>, <<<<"b", " ">>>>}}

ResultLists == UNION {[1..n -> EnhancementResults] : n \in 0..MaxParserSegments}

\* The statement of set_enhanced_segments without its length test: every
\* result that has a segment is written to it.
set_enhanced_segments_partial(segs, enhanced) ==
    [i \in 1..Len(segs) |->
        IF i <= Len(enhanced)
        THEN [segs[i] EXCEPT !.enhanced_text = enhanced[i].enhanced_text,
                             !.key_points = enhanced[i].key_points,
                             !.summary = enhanced[i].summary]
        ELSE segs[i]]

\* self.segments after set_enhanced_segments(enhanced_results).
set_enhanced_segments(segs, enhanced) ==
    IF Len(enhanced) # Len(segs)
    THEN segs
    ELSE [i \in 1..Len(enhanced) |->
            [segs[i] EXCEPT !.enhanced_text = enhanced[i].enhanced_text,
                            !.key_points = enhanced[i].key_points,
                            !.summary = enhanced[i].summary]]

\* TranscriptParser(): no segment; no results were handed over yet.
InitParser ==
    /\ pc = "created"
    /\ parser_segments = <<>>
    /\ enhanced_results = <<>>
    /\ BatchIdle
    /\ DetectorIdle
    /\ RefineIdle
    /\ SlidesIdle
    /\ EnhanceIdle
    /\ PipelineIdle
    /\ DistributeIdle

\* A call of load_subtitles, on a new parser or on one that holds segments.
LoadSubtitles ==
    /\ pc \in {"created", "loaded", "not_loaded", "set"}
    /\ \E files \in SubtitleFileLists :
          LET r == load_subtitles(parser_segments, files)
          IN /\ parser_segments' = r.segments
             /\ pc' = IF r.returned THEN "loaded" ELSE "not_loaded"
    /\ UNCHANGED enhanced_results
    /\ UNCHANGED <<batchVars, detectorVars, refineVars, slideVars, enhanceVars,
                   pipelineVars, distributeVars>>

\* A call of set_enhanced_segments; the parser may be handed results again.
SetEnhancedSegments ==
    /\ pc \in {"created", "loaded", "not_loaded", "set"}
    /\ \E enhanced \in ResultLists :
          /\ enhanced_results' = enhanced
          /\ parser_segments' = set_enhanced_segments(parser_segments, enhanced)
    /\ pc' = "set"
    /\ UNCHANGED <<batchVars, detectorVars, refineVars, slideVars, enhanceVars,
                   pipelineVars, distributeVars>>

NextParser ==
    \/ LoadSubtitles
    \/ SetEnhancedSegments

SpecParser == InitParser /\ [][NextParser]_vars

----------------------------------------------------------------------------
(* Claims about the parser's enhanced fields *)

\* C28: set_enhanced_segments is all-or-nothing: a result list whose length
\* differs from the number of segments changes no segment; otherwise segment
\* i receives the enhanced_text, key_points and summary of result i, and
\* keeps its text.
C28_AllOrNothing ==
    [][pc' = "set" =>
          IF Len(enhanced_results') # Len(parser_segments)
          THEN parser_segments' = parser_segments
          ELSE /\ Len(parser_segments') = Len(parser_segments)
               /\ \A i \in 1..Len(parser_segments) :
                     /\ parser_segments'[i].text = parser_segments[i].text
                     /\ parser_segments'[i].enhanced_text = enhanced_results'[i].enhanced_text
                     /\ parser_segments'[i].key_points = enhanced_results'[i].key_points
                     /\ parser_segments'[i].summary = enhanced_results'[i].summary]_vars

\* C28 witness: two segments that hold the fields of an earlier, matching
\* call after a call with a single, different result.
C28_Witness ==
    /\ pc = "set"
    /\ Len(parser_segments) = 2
    /\ Len(enhanced_results) = 1
    /\ parser_segments[1].enhanced_text = <<"y">>
    /\ parser_segments[2].summary = <<"s">>
    /\ enhanced_results[1].enhanced_text = <<"x">>

----------------------------------------------------------------------------
(* One TranscriptEnhancer used for both operations:                        *)
(* enhance_transcript_segment and enhance_full_transcript on one cache     *)

\* Most enhance_transcript_segment calls on the enhancer.
MaxSegmentCalls == 2

\* extract_key_points and generate_slide_summary are called while the
\* enhancer has made fewer than this many _call_claude_api calls.
MaxApiCalls == 1

\* The bullet character U+2022.
Bullet == "U+2022"

\* The texts of the segments handed to enhance_transcript_segment: "a", the
\* text of a one-segment batch, and "b.".
SegmentCallTexts == {<<"a">>, <<"b", ".">>}

\* Texts the API answers a segment with: "c" and the five lines
\* "ENHANCED_TEXT:", "c.", "KEY_POINTS:", "- d" and "(bullet) e".
SegmentResponses ==
    {<<"c">>,
     <<"ENHANCED_TEXT:", "\n", "c", ".", "\n", "KEY_POINTS:", "\n", "-", " ", "d",
       "\n", Bullet, " ", "e">>}

\* _parse_key_points(text)
parse_key_points(text) ==
    IF text = <<>> THEN <<>>
    ELSE LET lines == split_on(strip(text), {"\n"})
             stripped == [k \in 1..Len(lines) |-> strip(lines[k])]
             bullet(line) == line # <<>> /\ Head(line) \in {"-", Bullet, "*"}
             plain(line) == line # <<>> /\ Head(line) \notin {"KEY_POINTS:", "KEY_CONCEPTS:"}
             kept == SelectSeq(stripped, LAMBDA line : bullet(line) \/ plain(line))
         IN [k \in 1..Len(kept) |->
                IF bullet(kept[k]) THEN strip(Tail(kept[k])) ELSE kept[k]]

\* _parse_enhancement_response(response, original_text)
parse_enhancement_response(response, original_text) ==
    LET tokens_used == estimate_tokens(response)
        marker == IF "ENHANCED_TEXT:" \in Range(response) THEN "ENHANCED_TEXT:"
                  ELSE IF "ACADEMIC_TEXT:" \in Range(response) THEN "ACADEMIC_TEXT:"
                  ELSE "none"
        closing == IF marker = "ENHANCED_TEXT:" THEN "KEY_POINTS:" ELSE "KEY_CONCEPTS:"
        part == IF marker = "none" THEN <<response>>
                ELSE split_on(after_marker(response, marker), {closing})
        enhanced_text == strip(part[1])
    IN [original_text |-> original_text,
        enhanced_text |-> enhanced_text,
        key_points |-> IF marker = "none" THEN <<>>
                       ELSE parse_key_points(IF Len(part) > 1 THEN part[2] ELSE <<>>),
        summary |-> generate_summary(enhanced_text),
        confidence |-> 90,
        tokens_used |-> tokens_used,
        cost |-> cost_of(tokens_used)]

\* The result of the except clause in the variant that returns no text.
fallback_result_without_text(text) ==
    [original_text |-> text, enhanced_text |-> <<>>, key_points |-> <<>>,
     summary |-> <<>>, confidence |-> 0, tokens_used |-> 0, cost |-> 0]

\* The EnhancementResult the except clause of enhance_transcript_segment returns.
fallback_result(text) ==
    [original_text |-> text, enhanced_text |-> text, key_points |-> <<>>,
     summary |-> <<>>, confidence |-> 0, tokens_used |-> 0, cost |-> 0]

\* The cache test without "and self.config.cache_enhanced_results".
cache_hit_ignoring_config(c, key, enabled) == key \in DOMAIN c

\* "cache_key in self.cache and self.config.cache_enhanced_results"
cache_hit(c, key, enabled) == key \in DOMAIN c /\ enabled

\* The cache load_cache reads from a file save_cache wrote: the entry
\* "a_detailed" -> "c.".
LoadedCache ==
    cache_put(<<>>, cache_key(<<"a">>, enhancement_level), str_value(<<"c", ".">>))

LoadedCacheWriter ==
    cache_put(<<>>, cache_key(<<"a">>, enhancement_level), "load_cache")

\* The segment lists handed to enhance_full_transcript on that enhancer:
\* their texts are texts of segments handed to enhance_transcript_segment,
\* the first one "a".
EnhancerSegmentLists ==
    {segs \in SegmentLists(MaxEnhanceSegments) :
        /\ \A k \in 1..Len(segs) : segs[k].text \in SegmentCallTexts
        /\ segs # <<>> => segs[1].text = <<"a">>}

\* A TranscriptEnhancer before its first call, with batching on and no cost
\* limit.
InitEnhancer ==
    /\ pc = "idle"
    /\ segments \in EnhancerSegmentLists
    /\ target_tokens \in EnhanceTargets
    /\ enable_batching = TRUE
    /\ batches = <<>>
    /\ token_estimates = <<>>
    /\ cache_enhanced_results \in BOOLEAN
    /\ max_cost_per_video = 0
    /\ cache = <<>>
    /\ cache_writer = <<>>
    /\ stats = EmptyStats
    /\ results = <<>>
    /\ batch_idx = 0
    /\ outcome = "none"
    /\ segment_text = <<>>
    /\ segment_result = NoValue
    /\ segment_outcome = "none"
    /\ segment_calls = 0
    /\ api_calls = 0
    /\ ApiIdle
    /\ DetectorIdle
    /\ RefineIdle
    /\ SlidesIdle
    /\ PipelineIdle
    /\ DistributeIdle
    /\ ParserIdle

\* What every enhance_transcript_segment call does: it runs between the
\* calls of enhance_full_transcript and leaves that operation's state alone.
segment_call(text) ==
    /\ pc \in {"idle", "returned", "raised"}
    /\ segment_calls < MaxSegmentCalls
    /\ segment_calls' = segment_calls + 1
    /\ segment_text' = text
    /\ UNCHANGED <<pc, batchVars, cache_enhanced_results, max_cost_per_video, results,
                   batch_idx, outcome, apiVars>>
    /\ UNCHANGED <<detectorVars, refineVars, slideVars, pipelineVars, distributeVars,
                   parserVars>>

\* enhance_transcript_segment finds its key in the cache and returns the
\* stored value.
EnhanceSegmentCached ==
    \E text \in SegmentCallTexts :
        LET key == cache_key(text, enhancement_level)
        IN /\ segment_call(text)
           /\ cache_hit(cache, key, cache_enhanced_results)
           /\ segment_result' = cache[key]
           /\ segment_outcome' = "cached"
           /\ UNCHANGED <<cache, cache_writer, stats, api_calls>>

\* enhance_transcript_segment calls the API and gets a response.
EnhanceSegmentEnhanced ==
    \E text \in SegmentCallTexts, response \in SegmentResponses :
        LET key == cache_key(text, enhancement_level)
            result == parse_enhancement_response(response, text)
        IN /\ segment_call(text)
           /\ ~cache_hit(cache, key, cache_enhanced_results)
           /\ api_calls' = api_calls + 1
           /\ stats' = update_stats(stats, result.tokens_used, result.cost)
           /\ cache' = (IF cache_enhanced_results
                        THEN cache_put(cache, key, result_value(result))
                        ELSE cache)
           /\ cache_writer' = (IF cache_enhanced_results
                               THEN cache_put(cache_writer, key,
                                              "enhance_transcript_segment")
                               ELSE cache_writer)
           /\ segment_result' = result_value(result)
           /\ segment_outcome' = "ok"

\* enhance_transcript_segment calls the API, which raises after its retries:
\* the except clause records the error and returns the fallback result.
EnhanceSegmentFailed ==
    \E text \in SegmentCallTexts :
        LET key == cache_key(text, enhancement_level)
        IN /\ segment_call(text)
           /\ ~cache_hit(cache, key, cache_enhanced_results)
           /\ api_calls' = api_calls + 1
           /\ stats' = [stats EXCEPT !.errors = Append(@, "error")]
           /\ segment_result' = result_value(fallback_result(text))
           /\ segment_outcome' = "failed"
           /\ UNCHANGED <<cache, cache_writer>>

\* One iteration of the loop of enhance_full_transcript whose batch text is
\* found in the cache, the stored value being no string: re.split in
\* _distribute_enhanced_text raises TypeError outside the try block and the
\* call ends with that exception.
ProcessBatchCachedRaises ==
    /\ pc = "loop"
    /\ LET batch == batches[batch_idx]
           key == cache_key(combine_batch_text(batch), enhancement_level)
       IN /\ cache_hit(cache, key, cache_enhanced_results)
          /\ cache[key].type # "str"
          /\ batch # <<>>
    /\ pc' = "raised"
    /\ outcome' = "raised"
    /\ UNCHANGED <<batchVars, cache_enhanced_results, max_cost_per_video, cache, stats,
                   results, batch_idx, apiVars, segmentVars>>
    /\ UNCHANGED <<detectorVars, refineVars, slideVars, pipelineVars, distributeVars,
                   parserVars>>

\* What the operations besides the two enhancement operations leave alone.
between_calls ==
    /\ pc \in {"idle", "returned", "raised"}
    /\ UNCHANGED <<pc, batchVars, cache_enhanced_results, max_cost_per_video, stats,
                   results, batch_idx, outcome, apiVars>>
    /\ UNCHANGED <<segment_text, segment_result, segment_outcome, segment_calls>>
    /\ UNCHANGED <<detectorVars, refineVars, slideVars, pipelineVars, distributeVars,
                   parserVars>>

\* clear_cache(): "self.cache.clear()"
ClearCache ==
    /\ between_calls
    /\ cache' = <<>>
    /\ cache_writer' = <<>>
    /\ UNCHANGED api_calls

\* load_cache(filepath) on an existing file: "self.cache = json.load(f)"
LoadCache ==
    /\ between_calls
    /\ cache' = LoadedCache
    /\ cache_writer' = LoadedCacheWriter
    /\ UNCHANGED api_calls

\* extract_key_points(segments): one _call_claude_api call, whether it
\* answers or raises; statistics and cache are not touched.
ExtractKeyPoints ==
    /\ between_calls
    /\ api_calls < MaxApiCalls
    /\ api_calls' = api_calls + 1
    /\ UNCHANGED <<cache, cache_writer>>

\* generate_slide_summary(segments, slide_number) for a slide that has
\* segments: one _call_claude_api call; without segments it returns "".
GenerateSlideSummary ==
    /\ between_calls
    /\ api_calls < MaxApiCalls
    /\ api_calls' = api_calls + 1
    /\ UNCHANGED <<cache, cache_writer>>

NextEnhancer ==
    \/ EnhanceStart
    \/ ProcessBatchCached
    \/ ProcessBatchCachedRaises
    \/ ProcessBatchEnhanced
    \/ ProcessBatchFailed
    \/ EnhanceSegmentCached
    \/ EnhanceSegmentEnhanced
    \/ EnhanceSegmentFailed
    \/ ClearCache
    \/ LoadCache
    \/ ExtractKeyPoints
    \/ GenerateSlideSummary

SpecEnhancer == InitEnhancer /\ [][NextEnhancer]_vars

----------------------------------------------------------------------------
(* Claims about the enhancer used for both operations *)

\* A step that is an enhance_transcript_segment call.
SegmentCallStep == segment_calls' = segment_calls + 1

\* A step of enhance_transcript_segment or of enhance_full_transcript.
EnhancementStep == SegmentCallStep \/ pc = "loop" \/ (pc = "idle" /\ pc' # "idle")

\* No entry of the cache was read by load_cache.
NothingLoaded == \A key \in DOMAIN cache_writer : cache_writer[key] # "load_cache"

\* The cache key of the enhance_transcript_segment call of the step.
SegmentKey == cache_key(segment_text', enhancement_level)

\* The cache key of the batch the loop of enhance_full_transcript is at.
BatchKey == cache_key(combine_batch_text(batches[batch_idx]), enhancement_level)

\* C25: an enhance_transcript_segment call whose enhancement call fails does
\* not raise: it returns a result with the segment's own text as
\* enhanced_text and confidence, tokens_used and cost 0, appends the error to
\* stats.errors and leaves the cache and the token and cost totals unchanged.
C25_SegmentFailureFallsBack ==
    [][(SegmentCallStep /\ segment_outcome' = "failed") =>
          /\ pc' = pc
          /\ segment_result'.type = "EnhancementResult"
          /\ segment_result'.value.original_text = segment_text'
          /\ segment_result'.value.enhanced_text = segment_text'
          /\ segment_result'.value.confidence = 0
          /\ segment_result'.value.tokens_used = 0
          /\ segment_result'.value.cost = 0
          /\ stats'.errors = Append(stats.errors, "error")
          /\ stats'.total_tokens = stats.total_tokens
          /\ stats'.total_cost = stats.total_cost
          /\ cache' = cache]_vars

\* C25 witness: a failed call for "a" on an enhancer whose cache holds the
\* result of an earlier call and whose totals are not zero.
C25_Witness ==
    /\ segment_outcome = "failed"
    /\ segment_text = <<"a">>
    /\ segment_result.value.enhanced_text = <<"a">>
    /\ cache_enhanced_results
    /\ DOMAIN cache # {}
    /\ stats.total_cost > 0
    /\ Len(stats.errors) = 1

\* C29: with caching enabled a successful enhance_transcript_segment call
\* stores its result under its key, the two enhancement operations never
\* change or remove an entry, and a call that finds the entry of such a call
\* returns it without an API call and without touching the statistics; a
\* failed call of either operation stores nothing; with caching disabled
\* the two operations never write the cache and take no value from it.
C29_SegmentCache ==
    [][/\ (SegmentCallStep /\ cache_enhanced_results /\ segment_outcome' = "ok") =>
             /\ SegmentKey \in DOMAIN cache'
             /\ cache'[SegmentKey] = segment_result'
             /\ cache_writer'[SegmentKey] = "enhance_transcript_segment"
       /\ EnhancementStep =>
             \A key \in DOMAIN cache :
                /\ key \in DOMAIN cache'
                /\ cache'[key] = cache[key]
                /\ cache_writer'[key] = cache_writer[key]
       /\ (/\ SegmentCallStep
           /\ cache_enhanced_results
           /\ SegmentKey \in DOMAIN cache
           /\ cache_writer[SegmentKey] = "enhance_transcript_segment") =>
             /\ segment_result' = cache[SegmentKey]
             /\ api_calls' = api_calls
             /\ stats' = stats
       /\ ((SegmentCallStep /\ segment_outcome' = "failed")
              \/ (pc = "loop" /\ outcome' = "failed")) => cache' = cache
       /\ (EnhancementStep /\ ~cache_enhanced_results) =>
             /\ cache' = cache
             /\ SegmentCallStep =>
                   segment_outcome' # "cached" /\ api_calls' = api_calls + 1
             /\ pc = "loop" =>
                   outcome' \in {"ok", "failed"} /\ api_calls' = api_calls + 1]_vars

\* C29 witness: the second of two calls for the same text returned the
\* result the first one stored, with a single API call made.
C29_Witness ==
    /\ segment_outcome = "cached"
    /\ segment_calls = 2
    /\ api_calls = 1
    /\ segment_result.type = "EnhancementResult"
    /\ segment_result.value.original_text = segment_text
    /\ stats.enhanced_segments = 1

\* C30: on a cache that only the two enhancement operations have filled,
\* every value enhance_full_transcript reads for a batch is a string stored
\* by enhance_full_transcript, and every value enhance_transcript_segment
\* returns from the cache is an EnhancementResult stored by
\* enhance_transcript_segment.
C30_OperationsReadOwnEntries ==
    [][NothingLoaded =>
          /\ (pc = "loop" /\ outcome' \in {"cached", "raised"}) =>
                /\ cache[BatchKey].type = "str"
                /\ cache_writer[BatchKey] = "enhance_full_transcript"
          /\ (SegmentCallStep /\ segment_outcome' = "cached") =>
                /\ segment_result'.type = "EnhancementResult"
                /\ cache_writer[SegmentKey] = "enhance_transcript_segment"]_vars

====
